---- MODULE Spec2Model ----
(***************************************************************************)
(* A model of the Splunk-autodoc core pipeline:                            *)
(*   parser.py    layer location, stanza merging, redaction, extraction    *)
(*   resolver.py  transform evaluation, edge building, edge merging,       *)
(*                placeholder synthesis                                    *)
(*   validator.py the five diagnostic rules                                *)
(* Strings of the program are TLA+ strings; None is the string Null, which *)
(* no configuration value equals.                                          *)
(***************************************************************************)
EXTENDS Integers, Sequences, FiniteSets, TLC

VARIABLES
    ppc,            \* parser position: "find", "merge", "extract", "done",
                    \* "raised"
    conf_name,      \* the configuration file name being parsed
    tree,           \* the work directory: slot -> [exists, content]
    conf_files,     \* result of find_conf_files
    merged,         \* result of merge_conf_layers
    typed,          \* the typed records of the extractor
    mpc,            \* edge merging position: "start", "done"
    medges,         \* the edge list given to merge_similar_edges
    mresult,        \* the edge list it returns
    tpc,            \* apply_transforms_to_index position: "start", "loop", "done"
    tcfg,           \* its arguments: [input, props, transforms]
    current_indexes,
    filters_applied,
    drop_rules,
    current_sourcetype,
    processed_props,
    iteration,
    evaluated,      \* history: the (kind, value, matched sourcetype) of each evaluation
    gpc,            \* pipeline position: "resolve", "validate", "done",
                    \* "raised" (ValueError), "type_error"
    parsed,         \* the ParsedConfig given to build_canonical_graph
    graph,          \* the canonical graph JSON: [hosts, edges, meta]
    findings,       \* the list validate_graph returns
    spc,            \* validate_and_store_findings position: "idle", "delete",
                    \* "create", "returned", "raised"
    graph_row,      \* the Graph row with the given id exists
    json_blob,      \* its json_blob
    finding_dicts,  \* the list validate_graph returned in this run
    stored,         \* the committed rows of the findings table
    prior,          \* history: the graph's rows when the run began
    runs,           \* number of runs begun
    jpc,            \* create_job / process_job position: "idle", "start",
                    \* "extract", "parse", "resolve", "complete", "handler",
                    \* "returned", "raised"
    jobs,           \* the committed rows of the jobs table, by job id
    job,            \* the session's Job object of the running process_job
    cpc,            \* position of each concurrent validate_and_store_findings
    cdicts          \* the list validate_graph returned to each of them

pvars == <<ppc, conf_name, tree, conf_files, merged, typed>>

mvars == <<mpc, medges, mresult>>

tvars == <<tpc, tcfg, current_indexes, filters_applied, drop_rules,
           current_sourcetype, processed_props, iteration, evaluated>>

gvars == <<gpc, parsed, graph, findings>>

svars == <<spc, graph_row, json_blob, finding_dicts, stored, prior, runs>>

jvars == <<jpc, jobs, job>>

cvars == <<cpc, cdicts>>

vars == <<pvars, mvars, tvars, gvars, svars, jvars, cvars>>

Null == "<None>"

\* The values of a bool | None field.
True == "True"

False == "False"

EmptyFn == [x \in {} |-> x]

\* ------------------------------------------------------------------------
\* Bounds

\* Number of app directories under apps/.
NumApps == 2

\* Longest edge list given to merge_similar_edges.
MaxEdges == 3

\* Longest chain of sourcetype-rewrite stanzas given to
\* apply_transforms_to_index.
MaxChain == 11

\* Longest edge list of a stored graph given to validate_graph.
MaxGraphEdges == 2

\* ------------------------------------------------------------------------
\* parser.py

REDACTED == "<REDACTED>"

SENSITIVE_KEYS == {"pass4symmkey", "sslpassword", "password", "token", "secret"}

\* str.lower() on the keys that occur in the modelled files.
Lower(k) ==
    CASE k = "sslPassword" -> "sslpassword"
      [] k = "pass4SymmKey" -> "pass4symmkey"
      [] k = "PASSWORD" -> "password"
      [] k = "Token" -> "token"
      [] k = "indexerDiscovery" -> "indexerdiscovery"
      [] k = "defaultGroup" -> "defaultgroup"
      [] k = "useSSL" -> "usessl"
      [] k = "sslCertPath" -> "sslcertpath"
      [] OTHER -> k

redact_sensitive_value_exact(key, value) ==
    IF key \in SENSITIVE_KEYS THEN REDACTED ELSE value

redact_sensitive_value(key, value) ==
    IF Lower(key) \in SENSITIVE_KEYS THEN REDACTED ELSE value

\* A slot of the directory tree where a configuration file may live.
\* app is 0 for the system scope, the app directory (1..NumApps) otherwise.
Apps == 1..NumApps

Slot(scope, app, level) == [scope |-> scope, app |-> app, level |-> level]

Slots ==
    {Slot("system", 0, l) : l \in {"default", "local"}}
        \cup {Slot("apps", a, l) : a \in Apps, l \in {"default", "local"}}

\* str(file_path.relative_to(work_dir))
RelPath(slot) == <<slot.scope, slot.app, slot.level>>

\* app_name of a found file: None for the system layers.
AppNameOf(slot) == IF slot.scope = "system" THEN 0 ELSE slot.app

\* apps_dir.iterdir(): the order the file system lists the app directories
\* in is arbitrary; the descending order is taken here.
IterDir == [i \in 1..NumApps |-> NumApps + 1 - i]

RECURSIVE InsertSorted(_, _)
InsertSorted(x, s) ==
    IF s = <<>> THEN <<x>>
    ELSE IF x <= Head(s) THEN <<x>> \o s
    ELSE <<Head(s)>> \o InsertSorted(x, Tail(s))

RECURSIVE Sorted(_)
Sorted(s) == IF s = <<>> THEN <<>> ELSE InsertSorted(Head(s), Sorted(Tail(s)))

LayerType(slot) ==
    IF slot.scope = "system" THEN
        (IF slot.level = "default" THEN "system/default" ELSE "system/local")
    ELSE (IF slot.level = "default" THEN "app/default" ELSE "app/local")

precedence_key(item) ==
    CASE item.layer_type = "system/default" -> 0
      [] item.layer_type = "system/local" -> 1
      [] item.layer_type = "app/default" -> 2
      [] item.layer_type = "app/local" -> 3
      [] OTHER -> 999

Found(slot) == [slot |-> slot, layer_type |-> LayerType(slot), app_name |-> AppNameOf(slot)]

\* The files appended for one scope directory: default before local,
\* each only if it exists.
LevelsFound(t, scope, app) ==
    (IF t[Slot(scope, app, "default")].exists
        THEN <<Found(Slot(scope, app, "default"))>> ELSE <<>>)
    \o (IF t[Slot(scope, app, "local")].exists
        THEN <<Found(Slot(scope, app, "local"))>> ELSE <<>>)

RECURSIVE AppsFound(_, _)
AppsFound(t, apps) ==
    IF apps = <<>> THEN <<>>
    ELSE LevelsFound(t, "apps", Head(apps)) \o AppsFound(t, Tail(apps))

\* found_files before the final sort.
DiscoveryOrder(t) == LevelsFound(t, "system", 0) \o AppsFound(t, Sorted(IterDir))

\* list.sort(key=precedence_key): a stable sort by an integer key.
SortByPrecedence(found) ==
    SelectSeq(found, LAMBDA f : precedence_key(f) = 0)
    \o SelectSeq(found, LAMBDA f : precedence_key(f) = 1)
    \o SelectSeq(found, LAMBDA f : precedence_key(f) = 2)
    \o SelectSeq(found, LAMBDA f : precedence_key(f) = 3)
    \o SelectSeq(found, LAMBDA f : precedence_key(f) = 999)

find_conf_files_unsorted(t) == DiscoveryOrder(t)

find_conf_files(t) == SortByPrecedence(DiscoveryOrder(t))

\* One section of one file merged into the stanza's running record.
MergeSection(old, kv, found) ==
    [ kv |-> [k \in DOMAIN old.kv \cup DOMAIN kv |->
                IF k \in DOMAIN kv THEN redact_sensitive_value(k, kv[k])
                ELSE old.kv[k]],
      source_files |-> Append(old.source_files, RelPath(found.slot)),
      source_apps |-> Append(old.source_apps, found.app_name),
      source_file |-> RelPath(found.slot),
      source_app |-> found.app_name ]

FreshSection ==
    [ kv |-> EmptyFn, source_files |-> <<>>, source_apps |-> <<>>,
      source_file |-> <<>>, source_app |-> 0 ]

\* One file merged into the running map.
MergeFile(m, content, found) ==
    [s \in DOMAIN m \cup DOMAIN content |->
        IF s \in DOMAIN content
        THEN MergeSection(IF s \in DOMAIN m THEN m[s] ELSE FreshSection,
                          content[s], found)
        ELSE m[s]]

\* repr of the one-element list ConfigParser holds for a value until the
\* end of a read.
ListRepr(v) == "['" \o v \o "']"

\* parse_conf_file(file_path): the sections the ConfigParser holds after
\* parser.read, whose exception is logged and dropped.  A file's content is
\* its well-formed stanzas and its error the exception its offending line
\* raises (None for a well-formed file).  ParsingError is raised at the end
\* of the read, with every stanza in the parser; DuplicateSectionError stops
\* the read at the repeated header, with the values read so far still held as
\* lists; MissingSectionHeaderError stops it at the first line.
parse_conf_file(file) ==
    CASE file.error = Null -> file.content
      [] file.error = "ParsingError" -> file.content
      [] file.error = "DuplicateSectionError" ->
            [s \in DOMAIN file.content |->
                [k \in DOMAIN file.content[s] |-> ListRepr(file.content[s][k])]]
      [] OTHER -> EmptyFn

RECURSIVE MergeFrom(_, _, _)
MergeFrom(m, t, files) ==
    IF files = <<>> THEN m
    ELSE MergeFrom(MergeFile(m, parse_conf_file(t[Head(files).slot]), Head(files)),
                   t, Tail(files))

merge_conf_layers(files, t) == MergeFrom(EmptyFn, t, files)

Get(kv, k) == IF k \in DOMAIN kv THEN kv[k] ELSE Null

\* dict comprehension {k: v for k, v in kv.items() if k not in excluded}
Without(kv, excluded) == [k \in DOMAIN kv \ excluded |-> kv[k]]

\* value.lower() in ("1", "true", "yes") on the values that occur.
Truthy(v) == v \in {"1", "true", "True", "TRUE", "yes", "Yes"}

\* The stanza-name patterns of parse_inputs_conf, on the stanza names
\* that occur in the modelled files.
InputTypeOf(name) ==
    CASE name = "monitor:///var/log/test.log" -> "monitor"
      [] name = "monitor:///opt/app.log" -> "monitor"
      [] name = "tcp://:9999" -> "tcp"
      [] name = "udp://:514" -> "udp"
      [] name = "splunktcp://:9997" -> "splunktcp"
      [] name = "http://hec_token_123" -> "http"
      [] name = "script://./bin/run.sh" -> "script"
      [] name = "WinEventLog://Security" -> "WinEventLog"
      [] OTHER -> "modular"

InputsExcluded == {"sourcetype", "index", "host", "disabled"}

InputStanza(name, sec) ==
    [ stanza_name |-> name,
      input_type |-> InputTypeOf(name),
      sourcetype |-> Get(sec.kv, "sourcetype"),
      index |-> Get(sec.kv, "index"),
      host |-> Get(sec.kv, "host"),
      disabled |-> Truthy(IF "disabled" \in DOMAIN sec.kv
                          THEN sec.kv["disabled"] ELSE "false"),
      options |-> Without(sec.kv, InputsExcluded),
      source_file |-> sec.source_file,
      source_app |-> sec.source_app,
      source_files |-> sec.source_files,
      source_apps |-> sec.source_apps ]

parse_inputs_conf(m) == [name \in DOMAIN m |-> InputStanza(name, m[name])]

\* The stanza-name patterns of parse_outputs_conf: the captured group of
\* ^tcpout:(.+)$, ^indexer_discovery:(.+)$ and ^tcpout-server://(.+)$.
TcpoutGroupOf(name) ==
    CASE name = "tcpout:g1" -> "g1"
      [] name = "tcpout:g2" -> "g2"
      [] OTHER -> Null

DiscoveryOf(name) ==
    CASE name = "indexer_discovery:cm" -> "cm"
      [] OTHER -> Null

TcpoutServerOf(name) ==
    CASE name = "tcpout-server://idx1:9997" -> "idx1:9997"
      [] OTHER -> Null

\* [s.strip() for s in servers_str.split(",") if s.strip()]
SplitServers(v) ==
    CASE v = "idx1:9997" -> <<"idx1:9997">>
      [] v = "idx1:9997, idx2:9997" -> <<"idx1:9997", "idx2:9997">>
      [] v = "idx2:9997" -> <<"idx2:9997">>
      [] OTHER -> <<>>

\* a.get(k1) if a.get(k1) is not None else a.get(k2)
GetEither(kv, k1, k2) == IF Get(kv, k1) # Null THEN Get(kv, k1) ELSE Get(kv, k2)

DiscoveryDetails(sec) ==
    [ master_uri |-> GetEither(sec.kv, "master_uri", "masterUri"),
      pass4SymmKey |-> GetEither(sec.kv, "pass4SymmKey", "pass4symmkey"),
      sslCertPath |-> GetEither(sec.kv, "sslCertPath", "sslcertpath"),
      sslPassword |-> GetEither(sec.kv, "sslPassword", "sslpassword"),
      sslVerifyServerCert |->
          GetEither(sec.kv, "sslVerifyServerCert", "sslverifyservercert"),
      source_file |-> sec.source_file ]

indexer_discovery_map(m) ==
    [d \in {DiscoveryOf(n) : n \in {x \in DOMAIN m : DiscoveryOf(x) # Null}} |->
        DiscoveryDetails(m[CHOOSE n \in DOMAIN m : DiscoveryOf(n) = d])]

server_overrides(m) ==
    [e \in {TcpoutServerOf(n) : n \in {x \in DOMAIN m : TcpoutServerOf(x) # Null}} |->
        m[CHOOSE n \in DOMAIN m : TcpoutServerOf(n) = e].kv]

OutputsExcluded ==
    {"server", "sslCertPath", "clientCert", "sslRootCAPath", "useSSL",
     "compressed", "useACK", "indexerDiscovery"}

SeqToSet(s) == {s[i] : i \in DOMAIN s}

TriBool(v) == IF v = Null THEN Null ELSE IF Truthy(v) THEN True ELSE False

SslEnabled(kv) ==
    IF Get(kv, "sslCertPath") \notin {Null, ""}
       \/ Get(kv, "clientCert") \notin {Null, ""}
       \/ Get(kv, "sslRootCAPath") \notin {Null, ""}
    THEN True
    ELSE TriBool(Get(kv, "useSSL"))

OutputGroup(name, sec, m) ==
    LET servers == SplitServers(IF "server" \in DOMAIN sec.kv
                                THEN sec.kv["server"] ELSE "")
        default_group_name ==
            IF "tcpout" \in DOMAIN m THEN Get(m["tcpout"].kv, "defaultGroup") ELSE Null
        disc == Get(sec.kv, "indexerDiscovery")
        dmap == indexer_discovery_map(m)
        over == server_overrides(m)
    IN  [ group_name |-> TcpoutGroupOf(name),
          servers |-> servers,
          default_group |-> (TcpoutGroupOf(name) = default_group_name),
          ssl_enabled |-> SslEnabled(sec.kv),
          ssl_cert_path |-> Get(sec.kv, "sslCertPath"),
          compressed |-> TriBool(Get(sec.kv, "compressed")),
          use_ack |-> TriBool(Get(sec.kv, "useACK")),
          indexer_discovery |-> disc,
          options |-> Without(sec.kv, OutputsExcluded),
          \* options["indexer_discovery_details"], the empty map when not attached
          indexer_discovery_details |->
              IF disc \notin {Null, ""} /\ disc \in DOMAIN dmap
              THEN dmap[disc] ELSE EmptyFn,
          \* options["per_server_options"], the empty map when not attached
          per_server_options |->
              [e \in SeqToSet(servers) \cap DOMAIN over |-> over[e]],
          source_file |-> sec.source_file,
          source_app |-> sec.source_app,
          source_files |-> sec.source_files,
          source_apps |-> sec.source_apps ]

parse_outputs_conf(m) ==
    [name \in {n \in DOMAIN m : TcpoutGroupOf(n) # Null} |-> OutputGroup(name, m[name], m)]


\* ------------------------------------------------------------------------
\* The configuration snapshots the parser is run on.

NoFile == [exists |-> FALSE, content |-> EmptyFn, error |-> Null]

File(content) == [exists |-> TRUE, content |-> content, error |-> Null]

\* The literal value key k has in the file of a slot.
Val(slot, k) == k \o "=" \o ToString(RelPath(slot))

InStanza == "monitor:///var/log/test.log"

\* inputs.conf of a slot: absent, the stanza without keys, with index, or
\* with index and sslPassword.
InputsShapes == {"nofile", "bare", "index", "index+secret"}

InputsFile(slot, shape) ==
    CASE shape = "nofile" -> NoFile
      [] shape = "bare" -> File([s \in {InStanza} |-> EmptyFn])
      [] shape = "index" ->
            File([s \in {InStanza} |-> [k \in {"index"} |-> Val(slot, k)]])
      [] OTHER ->
            File([s \in {InStanza} |->
                    [k \in {"index", "sslPassword"} |-> Val(slot, k)]])

\* outputs.conf of a slot: absent, or any choice of the stanzas [tcpout],
\* [tcpout:g1] (with or without indexerDiscovery), [indexer_discovery:cm]
\* and [tcpout-server://idx1:9997].
OutputsShapes ==
    {[grp |-> "nofile", tcpout |-> FALSE, disc |-> FALSE, srv |-> FALSE]}
        \cup [grp : {"none", "servers", "discovery"}, tcpout : BOOLEAN,
              disc : BOOLEAN, srv : BOOLEAN]

OutputsStanzaKV(slot, name, shape) ==
    CASE name = "tcpout" -> [k \in {"defaultGroup"} |-> "g1"]
      [] name = "tcpout:g1" ->
            [k \in {"server", "sslPassword", "useSSL"}
                   \cup (IF shape.grp = "discovery" THEN {"indexerDiscovery"} ELSE {}) |->
                CASE k = "server" -> "idx1:9997"
                  [] k = "useSSL" -> "true"
                  [] k = "indexerDiscovery" -> "cm"
                  [] OTHER -> Val(slot, k)]
      [] name = "indexer_discovery:cm" ->
            [k \in {"master_uri", IF slot.scope = "system" THEN "pass4SymmKey"
                                  ELSE "pass4symmkey"} |->
                IF k = "master_uri" THEN "https://cm:8089" ELSE Val(slot, k)]
      [] OTHER -> [k \in {"sslPassword", "PASSWORD", "compressed"} |->
                    IF k = "compressed" THEN "true" ELSE Val(slot, k)]

OutputsFile(slot, shape) ==
    IF shape.grp = "nofile" THEN NoFile
    ELSE File([name \in (IF shape.tcpout THEN {"tcpout"} ELSE {})
                    \cup (IF shape.grp # "none" THEN {"tcpout:g1"} ELSE {})
                    \cup (IF shape.disc THEN {"indexer_discovery:cm"} ELSE {})
                    \cup (IF shape.srv THEN {"tcpout-server://idx1:9997"} ELSE {}) |->
                OutputsStanzaKV(slot, name, shape)])

\* The slots that may hold an outputs.conf in the modelled snapshots.
OutputsSlots == {Slot("system", 0, "local"), Slot("apps", 1, "local")}

ParserIdle ==
    /\ ppc = "idle"
    /\ conf_name = Null
    /\ tree = EmptyFn
    /\ conf_files = <<>>
    /\ merged = EmptyFn
    /\ typed = EmptyFn

MergerIdle ==
    /\ mpc = "idle"
    /\ medges = <<>>
    /\ mresult = <<>>

TransformsIdle ==
    /\ tpc = "idle"
    /\ tcfg = EmptyFn
    /\ current_indexes = <<>>
    /\ filters_applied = <<>>
    /\ drop_rules = <<>>
    /\ current_sourcetype = Null
    /\ processed_props = {}
    /\ iteration = 0
    /\ evaluated = <<>>

GraphIdle ==
    /\ gpc = "idle"
    /\ parsed = EmptyFn
    /\ graph = EmptyFn
    /\ findings = <<>>

JobsIdle ==
    /\ jpc = "none"
    /\ jobs = <<>>
    /\ job = EmptyFn

ConcurrentIdle ==
    /\ cpc = EmptyFn
    /\ cdicts = EmptyFn

StoreIdle ==
    /\ spc = "none"
    /\ graph_row = FALSE
    /\ json_blob = EmptyFn
    /\ finding_dicts = <<>>
    /\ stored = <<>>
    /\ prior = <<>>
    /\ runs = 0

ParserInit ==
    /\ JobsIdle
    /\ ConcurrentIdle
    /\ StoreIdle
    /\ MergerIdle
    /\ TransformsIdle
    /\ GraphIdle
    /\ ppc = "find"
    /\ conf_files = <<>>
    /\ merged = EmptyFn
    /\ typed = EmptyFn
    /\ \/ /\ conf_name = "inputs.conf"
          /\ \E shape \in [Slots -> InputsShapes] :
                tree = [s \in Slots |-> InputsFile(s, shape[s])]
       \/ /\ conf_name = "outputs.conf"
          /\ \E shape \in [OutputsSlots -> OutputsShapes] :
                tree = [s \in Slots |->
                          IF s \in OutputsSlots THEN OutputsFile(s, shape[s]) ELSE NoFile]

\* conf_files = find_conf_files(work_dir, conf_name)
FindConfFiles ==
    /\ ppc = "find"
    /\ conf_files' = find_conf_files(tree)
    /\ ppc' = "merge"
    /\ UNCHANGED <<conf_name, tree, merged, typed, mvars, tvars, gvars, svars, jvars, cvars>>

\* merged = merge_conf_layers(conf_files, conf_name, work_dir)
MergeConfLayers ==
    /\ ppc = "merge"
    /\ merged' = merge_conf_layers(conf_files, tree)
    /\ ppc' = "extract"
    /\ UNCHANGED <<conf_name, tree, conf_files, typed, mvars, tvars, gvars, svars, jvars, cvars>>

\* the extraction loop of parse_inputs_conf; .lower() on a disabled value
\* that is a list raises AttributeError
ParseInputsConf ==
    /\ ppc = "extract"
    /\ conf_name = "inputs.conf"
    /\ IF \E s \in DOMAIN merged :
             /\ "disabled" \in DOMAIN merged[s].kv
             /\ merged[s].kv["disabled"] \in {ListRepr(v) : v \in {"true", "false"}}
       THEN /\ ppc' = "raised"
            /\ UNCHANGED typed
       ELSE /\ typed' = parse_inputs_conf(merged)
            /\ ppc' = "done"
    /\ UNCHANGED <<conf_name, tree, conf_files, merged, mvars, tvars, gvars, svars, jvars, cvars>>

\* the extraction loops of parse_outputs_conf
ParseOutputsConf ==
    /\ ppc = "extract"
    /\ conf_name = "outputs.conf"
    /\ typed' = parse_outputs_conf(merged)
    /\ ppc' = "done"
    /\ UNCHANGED <<conf_name, tree, conf_files, merged, mvars, tvars, gvars, svars, jvars, cvars>>

ParserNext == FindConfFiles \/ MergeConfLayers \/ ParseInputsConf \/ ParseOutputsConf

SpecParser == ParserInit /\ [][ParserNext]_vars

\* ------------------------------------------------------------------------
\* Claims about the parser

\* The position of a slot's layer in the precedence order.
LayerRank(slot) ==
    IF slot.scope = "system" THEN (IF slot.level = "default" THEN 0 ELSE 1)
    ELSE (IF slot.level = "default" THEN 2 ELSE 3)

\* The slots whose file holds stanza s / defines key k in stanza s.
Holders(s) == {sl \in Slots : tree[sl].exists /\ s \in DOMAIN tree[sl].content}

Definers(s, k) == {sl \in Holders(s) : k \in DOMAIN tree[sl].content[s]}

TopLayer(slots) == {sl \in slots : \A o \in slots : LayerRank(o) <= LayerRank(sl)}

\* The file of highest precedence among slots: highest layer, and within the
\* app layers the app that sorts last.
TopFile(slots) == CHOOSE sl \in TopLayer(slots) : \A o \in TopLayer(slots) : o.app <= sl.app

\* C1: for every (non-sensitive) key of a stanza, the merged value is the
\* value of a file of the highest-precedence layer that defines the key, so
\* an apps/*/local value beats every apps/*/default value whatever the app
\* names; _source_file/_source_app name the highest-precedence file holding
\* the stanza.
C1_PrecedenceLaw ==
    (ppc \in {"extract", "done"}) =>
        \A s \in DOMAIN merged :
            /\ \A k \in DOMAIN merged[s].kv :
                  Lower(k) \notin SENSITIVE_KEYS =>
                      /\ Definers(s, k) # {}
                      /\ \E sl \in TopLayer(Definers(s, k)) :
                            merged[s].kv[k] = tree[sl].content[s][k]
            /\ merged[s].source_file = RelPath(TopFile(Holders(s)))
            /\ merged[s].source_app = AppNameOf(TopFile(Holders(s)))

\* C1 witness: index is defined in all four layers, by the local file of the
\* first app and the default file of the second, and the merged value is a
\* local one.
C1_Witness ==
    /\ ppc = "done"
    /\ conf_name = "inputs.conf"
    /\ \A l \in 0..3 : \E sl \in Definers(InStanza, "index") : LayerRank(sl) = l
    /\ Slot("apps", 1, "local") \in Definers(InStanza, "index")
    /\ Slot("apps", 2, "default") \in Definers(InStanza, "index")
    /\ Slot("apps", 2, "local") \notin Definers(InStanza, "index")
    /\ typed[InStanza].index = Val(Slot("apps", 1, "local"), "index")

Redacted(kv) == \A k \in DOMAIN kv : Lower(k) \in SENSITIVE_KEYS => kv[k] = REDACTED

\* C2: every sensitive key of the merged map, of the residual options of
\* every typed record, of per_server_options and of
\* indexer_discovery_details holds the sentinel (in the details, None when
\* the stanza does not define the key), never the literal.
C2_RedactionLaw ==
    /\ \A s \in DOMAIN merged : Redacted(merged[s].kv)
    /\ \A r \in DOMAIN typed :
          /\ Redacted(typed[r].options)
          /\ conf_name = "outputs.conf" =>
                /\ \A e \in DOMAIN typed[r].per_server_options :
                      Redacted(typed[r].per_server_options[e])
                /\ \A k \in DOMAIN typed[r].indexer_discovery_details :
                      Lower(k) \in SENSITIVE_KEYS =>
                          typed[r].indexer_discovery_details[k] \in {REDACTED, Null}

\* C2 witness: an output group with a redacted sslPassword option, attached
\* discovery details with a redacted pass4SymmKey and a per-server override
\* with a redacted PASSWORD.
C2_Witness ==
    /\ ppc = "done"
    /\ conf_name = "outputs.conf"
    /\ "tcpout:g1" \in DOMAIN typed
    /\ typed["tcpout:g1"].options["sslPassword"] = REDACTED
    /\ typed["tcpout:g1"].indexer_discovery_details # EmptyFn
    /\ typed["tcpout:g1"].indexer_discovery_details.pass4SymmKey = REDACTED
    /\ "idx1:9997" \in DOMAIN typed["tcpout:g1"].per_server_options
    /\ typed["tcpout:g1"].per_server_options["idx1:9997"]["PASSWORD"] = REDACTED


\* ------------------------------------------------------------------------
\* resolver.py: merge_similar_edges

\* The strings that occur in the list-valued fields of the modelled edges
\* and findings, in the order sorted() puts them.
StringOrder ==
    <<"DROP:drop_debug", "DROP:t_drop", "WinEventLog://Security", "alt_st",
      "app1", "app2", "host_index", "http://hec_token_123", "idx_a", "idx_b",
      "journald://system", "main", "monitor:///opt/app.log",
      "monitor:///var/log/test.log", "script://./bin/run.sh", "search",
      "source_index", "splunktcp://:9997", "src_a", "src_b", "st_a", "st_b",
      "st_index", "syslog", "tcp://:9999", "test_st", "udp://:514", "web">>

\* sorted(set)
SortedSet(S) == SelectSeq(StringOrder, LAMBDA x : x \in S)

RECURSIVE Dedup(_, _)
\* the seen_filters loop: first occurrences, in order
Dedup(s, seen) ==
    IF s = <<>> THEN <<>>
    ELSE IF Head(s) \in seen THEN Dedup(Tail(s), seen)
    ELSE <<Head(s)>> \o Dedup(Tail(s), seen \cup {Head(s)})

RECURSIVE Concat(_)
Concat(ss) == IF ss = <<>> THEN <<>> ELSE Head(ss) \o Concat(Tail(ss))

\* The weight of the first member alone.
Sum_first(ns) == IF ns = <<>> THEN 0 ELSE Head(ns)

RECURSIVE Sum(_)
Sum(ns) == IF ns = <<>> THEN 0 ELSE Head(ns) + Sum(Tail(ns))

MergeKey(e) == <<e.src_host, e.dst_host, e.protocol, e.path_kind>>

\* The key of every edge, repeated keys included.
GroupKeys_repeated(edges) == [i \in DOMAIN edges |-> MergeKey(edges[i])]

\* The keys of edge_groups, in insertion order.
GroupKeys(edges) == Dedup([i \in DOMAIN edges |-> MergeKey(edges[i])], {})

GroupOf(edges, key) == SelectSeq(edges, LAMBDA e : MergeKey(e) = key)

\* The tls of a merged group, as the claim states it: False if any member is
\* False, True only if every member is True, None otherwise.
MergedTlsAllMembers(group) ==
    IF \E i \in DOMAIN group : group[i].tls = False THEN False
    ELSE IF \A i \in DOMAIN group : group[i].tls = True THEN True
    ELSE Null

\* The tls of the first member alone.
MergedTls_first(group) == group[1].tls

\* The tls of a merged group: tls_values holds the members' values that are
\* not None.
MergedTls(group) ==
    LET tls_values ==
            SelectSeq([i \in DOMAIN group |-> group[i].tls], LAMBDA v : v # Null)
    IN  IF tls_values # <<>> THEN
            IF \E i \in DOMAIN tls_values : tls_values[i] = False THEN False
            ELSE IF \A i \in DOMAIN tls_values : tls_values[i] = True THEN True
            ELSE Null
        ELSE Null

\* set.update over the members' values of one list field
UnionOf(lists) == UNION {SeqToSet(lists[i]) : i \in DOMAIN lists}

MergeGroup(key, group) ==
    IF Len(group) = 1 THEN group[1]
    ELSE
        [ src_host |-> key[1],
          dst_host |-> key[2],
          protocol |-> key[3],
          path_kind |-> key[4],
          sources |-> SortedSet(UnionOf([i \in DOMAIN group |-> group[i].sources])),
          sourcetypes |-> SortedSet(UnionOf([i \in DOMAIN group |-> group[i].sourcetypes])),
          indexes |-> SortedSet(UnionOf([i \in DOMAIN group |-> group[i].indexes])),
          filters |-> Dedup(Concat([i \in DOMAIN group |-> group[i].filters]), {}),
          drop_rules |-> SortedSet(UnionOf([i \in DOMAIN group |-> group[i].drop_rules])),
          tls |-> MergedTls(group),
          weight |-> Sum([i \in DOMAIN group |-> group[i].weight]),
          app_contexts |-> SortedSet(UnionOf([i \in DOMAIN group |-> group[i].app_contexts])),
          confidence |->
              IF \E i \in DOMAIN group : group[i].confidence = "derived"
              THEN "derived" ELSE "explicit" ]

\* Each group represented by its first member.
merge_similar_edges_first(edges) ==
    LET keys == GroupKeys(edges)
    IN  [i \in DOMAIN keys |-> GroupOf(edges, keys[i])[1]]

merge_similar_edges(edges) ==
    LET keys == GroupKeys(edges)
    IN  [i \in DOMAIN keys |-> MergeGroup(keys[i], GroupOf(edges, keys[i]))]

\* The edges merge_similar_edges is run on: two destinations, every tls and
\* confidence value, two payloads of list fields and weight.
EdgeChoice(dst, tls, confidence, payload) ==
    [ src_host |-> "uf01",
      dst_host |-> dst,
      protocol |-> "splunktcp",
      path_kind |-> "forwarding",
      sources |-> IF payload = 1 THEN <<"src_b">> ELSE <<"src_a", "src_b">>,
      sourcetypes |-> IF payload = 1 THEN <<"st_a">> ELSE <<"st_b">>,
      indexes |-> IF payload = 1 THEN <<"main">> ELSE <<"web", "idx_a">>,
      filters |-> IF payload = 1 THEN <<"TRANSFORMS:t2", "TRANSFORMS:t1">>
                  ELSE <<"TRANSFORMS:t1">>,
      drop_rules |-> IF payload = 1 THEN <<>> ELSE <<"DROP:t_drop">>,
      tls |-> tls,
      weight |-> payload,
      app_contexts |-> IF payload = 1 THEN <<"app2">> ELSE <<"app1">>,
      confidence |-> confidence ]

EdgeChoices ==
    {EdgeChoice(d, t, c, p) :
        d \in {"idx1", "idx2"}, t \in {True, False, Null},
        c \in {"explicit", "derived"}, p \in {1, 2}}

SeqsUpTo(S, n) == UNION {[1..k -> S] : k \in 0..n}

MergerInit ==
    /\ JobsIdle
    /\ ConcurrentIdle
    /\ StoreIdle
    /\ ParserIdle
    /\ TransformsIdle
    /\ GraphIdle
    /\ mpc = "start"
    /\ medges \in SeqsUpTo(EdgeChoices, MaxEdges)
    /\ mresult = <<>>

\* mresult = merge_similar_edges(medges)
MergeSimilarEdges ==
    /\ mpc = "start"
    /\ mresult' = merge_similar_edges(medges)
    /\ mpc' = "done"
    /\ UNCHANGED <<medges, pvars, tvars, gvars, svars, jvars, cvars>>

SpecMerger == MergerInit /\ [][MergeSimilarEdges]_vars

\* C3: the tls of an edge merged from two or more edges is False if any
\* member's tls is False, else True only if every member's tls is True, else
\* None.
C3_TlsMergeRule ==
    (mpc = "done") =>
        \A i \in DOMAIN mresult :
            LET group == GroupOf(medges, MergeKey(mresult[i]))
            IN  Len(group) >= 2 => mresult[i].tls = MergedTlsAllMembers(group)


\* The permutations of 1..n.
IndexPermutations(n) ==
    {p \in [1..n -> 1..n] : \A i, j \in 1..n : p[i] = p[j] => i = j}

Permuted(edges, p) == [i \in DOMAIN edges |-> edges[p[i]]]

OneMergeKey(edges) ==
    edges # <<>> /\ \A i \in DOMAIN edges : MergeKey(edges[i]) = MergeKey(edges[1])

\* Two edges equal in every field but the order of filters.
SameUpToFilterOrder(a, b) ==
    /\ [a EXCEPT !.filters = <<>>] = [b EXCEPT !.filters = <<>>]
    /\ SeqToSet(a.filters) = SeqToSet(b.filters)
    /\ Len(a.filters) = Len(b.filters)

C13_ConfidenceDowngrade ==
    (mpc = "done") =>
        \A i \in DOMAIN mresult :
            LET group == GroupOf(medges, MergeKey(mresult[i]))
            IN  /\ mresult[i].confidence \in {"derived", "explicit"}
                /\ mresult[i].confidence = "derived" <=>
                      \E j \in DOMAIN group : group[j].confidence = "derived"

\* C13 witness: a group of three whose last member alone is derived was
\* merged to one derived edge.
C13_Witness ==
    /\ mpc = "done"
    /\ Len(medges) = 3
    /\ Len(mresult) = 1
    /\ medges[1].confidence = "explicit"
    /\ medges[2].confidence = "explicit"
    /\ medges[3].confidence = "derived"
    /\ mresult[1].confidence = "derived"


\* ------------------------------------------------------------------------
\* resolver.py: apply_transforms_to_index

PRECEDENCE_ORDER ==
    [k \in {"sourcetype", "source", "host"} |->
        CASE k = "sourcetype" -> 0 [] k = "source" -> 1 [] k = "host" -> 2]

max_iterations == 10

\* A str | None value that is neither None nor "".
NonEmpty(v) == v # Null /\ v # ""

\* stanza_value.endswith("*"), on the source patterns that occur.
EndsWithStar(v) == v \in {"/var/log/*", "/opt/*"}

\* source_path.startswith(stanza_value[:-1]), on the paths and patterns
\* that occur.
StartsWithPrefixOf(path, v) ==
    \/ path = "/var/log/test.log" /\ v = "/var/log/*"
    \/ path = "/opt/app.log" /\ v = "/opt/*"

PropKey(prop, sourcetype) == <<prop.stanza_type, prop.stanza_value, sourcetype>>

\* The branch of the matching chain a props stanza takes: the match type,
\* or Null when the stanza does not match.
MatchType(prop, input, sourcetype) ==
    IF prop.stanza_type = "sourcetype" /\ prop.stanza_value = sourcetype
    THEN "sourcetype"
    ELSE IF prop.stanza_type = "source" /\ NonEmpty(input.source_path)
    THEN IF prop.stanza_value = input.source_path THEN "source"
         ELSE IF /\ EndsWithStar(prop.stanza_value)
                 /\ StartsWithPrefixOf(input.source_path, prop.stanza_value)
         THEN "source"
         ELSE Null
    ELSE IF prop.stanza_type = "host" /\ prop.stanza_value = input.host
    THEN "host"
    ELSE Null

\* matching_props before the sort: [type, prop] in props order.
MatchingProps(cfg, sourcetype, processed) ==
    LET tagged == [i \in DOMAIN cfg.props |->
                      [type |-> MatchType(cfg.props[i], cfg.input, sourcetype),
                       prop |-> cfg.props[i]]]
    IN  SelectSeq(tagged,
                  LAMBDA x : /\ PropKey(x.prop, sourcetype) \notin processed
                             /\ x.type # Null)

\* matching_props.sort(key=PRECEDENCE_ORDER..., reverse=True): a stable
\* sort, highest key first.
SortMatches(matches) ==
    SelectSeq(matches, LAMBDA x : PRECEDENCE_ORDER[x.type] = 2)
        \o SelectSeq(matches, LAMBDA x : PRECEDENCE_ORDER[x.type] = 1)
        \o SelectSeq(matches, LAMBDA x : PRECEDENCE_ORDER[x.type] = 0)

\* (t for t in transforms if t.stanza_name == ref): next() takes the first,
\* or None when there is none.
LookupTransform(transforms, ref) ==
    SelectSeq(transforms, LAMBDA t : t.stanza_name = ref)

\* ApplyTransform with a drop that leaves the index list as it is.
ApplyTransform_drop_keeps_indexes(loc, ref, transform) ==
    LET routed ==
            IF transform.is_index_routing /\ NonEmpty(transform.format)
            THEN [loc EXCEPT
                     !.current_indexes = Append(@, transform.format),
                     !.filters_applied = Append(@, "TRANSFORMS:" \o ref)]
            ELSE loc
        dropped ==
            IF transform.is_drop
            THEN [routed EXCEPT !.drop_rules = Append(@, "DROP:" \o ref)]
            ELSE routed
    IN  IF transform.is_sourcetype_rewrite /\ NonEmpty(transform.format)
        THEN LET traced == [dropped EXCEPT
                     !.filters_applied = Append(@, "SOURCETYPE_REWRITE:" \o ref)]
             IN  IF transform.format # dropped.current_sourcetype
                 THEN [traced EXCEPT
                          !.current_sourcetype = transform.format,
                          !.sourcetype_changed = TRUE]
                 ELSE traced
        ELSE dropped

\* The three effects of one found transform on the running locals.
ApplyTransform(loc, ref, transform) ==
    LET routed ==
            IF transform.is_index_routing /\ NonEmpty(transform.format)
            THEN [loc EXCEPT
                     !.current_indexes = Append(@, transform.format),
                     !.filters_applied = Append(@, "TRANSFORMS:" \o ref)]
            ELSE loc
        dropped ==
            IF transform.is_drop
            THEN [routed EXCEPT
                     !.drop_rules = Append(@, "DROP:" \o ref),
                     !.current_indexes = <<>>]
            ELSE routed
    IN  IF transform.is_sourcetype_rewrite /\ NonEmpty(transform.format)
        THEN LET traced == [dropped EXCEPT
                     !.filters_applied = Append(@, "SOURCETYPE_REWRITE:" \o ref)]
             IN  IF transform.format # dropped.current_sourcetype
                 THEN [traced EXCEPT
                          !.current_sourcetype = transform.format,
                          !.sourcetype_changed = TRUE]
                 ELSE traced
        ELSE dropped

RECURSIVE ApplyRefs(_, _, _)
\* for transform_ref in transform_refs
ApplyRefs(loc, refs, transforms) ==
    IF refs = <<>> THEN loc
    ELSE LET found == LookupTransform(transforms, Head(refs))
         IN  ApplyRefs(IF found = <<>> THEN loc
                       ELSE ApplyTransform(loc, Head(refs), Head(found)),
                       Tail(refs), transforms)

RECURSIVE ApplyMatches(_, _, _, _)
\* for _match_type, prop in matching_props; matched is the sourcetype the
\* stanzas of this iteration were matched against.
ApplyMatches(loc, matches, transforms, matched) ==
    IF matches = <<>> THEN loc
    ELSE LET prop == Head(matches).prop
             marked == [loc EXCEPT
                 !.processed_props = @ \cup {PropKey(prop, loc.current_sourcetype)},
                 !.evaluated = Append(@, PropKey(prop, matched))]
         IN  ApplyMatches(ApplyRefs(marked, prop.transforms, transforms),
                          Tail(matches), transforms, matched)

\* while iteration < max_iterations
LoopGuardUnbounded(it) == TRUE

LoopGuard(it) == it < max_iterations

\* The locals after the assignments before the loop.
InitialLocals(input) ==
    [ current_indexes |->
          IF NonEmpty(input.index) THEN <<input.index>> ELSE <<"main">>,
      filters_applied |-> <<>>,
      drop_rules |-> <<>>,
      current_sourcetype |-> input.sourcetype,
      processed_props |-> {},
      evaluated |-> <<>>,
      sourcetype_changed |-> FALSE ]

\* One pass of the while body on the locals; sourcetype_changed tells
\* whether the loop goes on (no break was taken).
LoopBody(cfg, loc) ==
    LET matching_props ==
            MatchingProps(cfg, loc.current_sourcetype, loc.processed_props)
        out == ApplyMatches([loc EXCEPT !.sourcetype_changed = FALSE],
                            SortMatches(matching_props), cfg.transforms,
                            loc.current_sourcetype)
    IN  [out EXCEPT !.sourcetype_changed = (matching_props # <<>> /\ @)]

RECURSIVE RunLoop(_, _, _)
RunLoop(cfg, loc, it) ==
    IF ~LoopGuard(it) THEN loc
    ELSE LET out == LoopBody(cfg, loc)
         IN  IF out.sourcetype_changed THEN RunLoop(cfg, out, it + 1) ELSE out

\* (final_indexes, filters_applied, drop_rules)
apply_transforms_to_index(input_stanza, props, transforms) ==
    LET out == RunLoop([input |-> input_stanza, props |-> props,
                        transforms |-> transforms],
                       InitialLocals(input_stanza), 0)
    IN  <<out.current_indexes, out.filters_applied, out.drop_rules>>


\* The arguments apply_transforms_to_index is run on.
Transform(name, kind, format) ==
    [ stanza_name |-> name,
      format |-> format,
      is_index_routing |-> kind = "index",
      is_drop |-> kind = "drop",
      is_sourcetype_rewrite |-> kind = "sourcetype" ]

Props(type, value, transforms) ==
    [ stanza_type |-> type, stanza_value |-> value, transforms |-> transforms ]

SomeTransforms ==
    << Transform("transform_host", "index", "host_index"),
       Transform("transform_source", "index", "source_index"),
       Transform("transform_sourcetype", "index", "st_index"),
       Transform("transform_alt", "index", "idx_b"),
       Transform("drop_debug", "drop", "nullQueue"),
       Transform("rewrite_test_st", "sourcetype", "test_st"),
       Transform("rewrite_alt_st", "sourcetype", "alt_st"),
       Transform("route_noformat", "index", Null) >>

\* What a props stanza references: nothing (the stanza is absent), its own
\* index-routing transform, a drop, a sourcetype rewrite, or a mix with a
\* reference to a transform that does not exist.
PropsShapes == {"absent", "index", "drop", "to_test_st", "to_alt_st", "index+to_alt_st", "mixed"}

RefsOf(shape, index_transform) ==
    CASE shape = "index" -> <<index_transform>>
      [] shape = "drop" -> <<"drop_debug">>
      [] shape = "to_test_st" -> <<"rewrite_test_st">>
      [] shape = "to_alt_st" -> <<"rewrite_alt_st">>
      [] shape = "index+to_alt_st" -> <<index_transform, "rewrite_alt_st">>
      [] shape = "mixed" -> <<"no_such_transform", "route_noformat", index_transform>>
      [] OTHER -> <<>>

\* props.conf stanzas in file order; sh gives the shape of each.
SomeProps(sh, source_value) ==
    LET tagged == SelectSeq(
        << [p |-> Props("sourcetype", "test_st", RefsOf(sh[1], "transform_sourcetype")), shape |-> sh[1]],
           [p |-> Props("source", source_value, RefsOf(sh[2], "transform_source")), shape |-> sh[2]],
           [p |-> Props("host", "testhost", RefsOf(sh[3], "transform_host")), shape |-> sh[3]],
           [p |-> Props("sourcetype", "alt_st", RefsOf(sh[4], "transform_alt")), shape |-> sh[4]] >>,
        LAMBDA x : x.shape # "absent")
    IN  [i \in DOMAIN tagged |-> tagged[i].p]

SomeInput(sourcetype, index) ==
    [ source_path |-> "/var/log/test.log", sourcetype |-> sourcetype,
      host |-> "testhost", index |-> index ]

SomeConfigs ==
    { [ input |-> SomeInput(st, ix),
        props |-> SomeProps(sh, sv),
        transforms |-> SomeTransforms ] :
        st \in {"test_st", Null}, ix \in {"main", "idx_a", Null},
        sh \in [1..4 -> PropsShapes],
        sv \in {"/var/log/test.log", "/var/log/*", "/opt/*"} }

\* A chain of sourcetype rewrites s0 -> s1 -> ... -> s<len>, closed into a
\* cycle back to s0 when cyclic.
ChainSourcetype(i) == "s" \o ToString(i)

ChainRewrite(i) == "rewrite_s" \o ToString(i)

ChainConfig(len, cyclic) ==
    [ input |-> SomeInput(ChainSourcetype(0), Null),
      props |-> [i \in 1..len |->
                    Props("sourcetype", ChainSourcetype(i - 1),
                          <<ChainRewrite(IF cyclic /\ i = len THEN 0 ELSE i)>>)],
      transforms |-> [i \in 1..(len + 1) |->
                         Transform(ChainRewrite(i - 1), "sourcetype",
                                   ChainSourcetype(i - 1))] ]

ChainConfigs == {ChainConfig(len, cyclic) : len \in 1..MaxChain, cyclic \in BOOLEAN}

TransformsInit ==
    /\ JobsIdle
    /\ ConcurrentIdle
    /\ StoreIdle
    /\ ParserIdle
    /\ MergerIdle
    /\ GraphIdle
    /\ tpc = "start"
    /\ tcfg \in SomeConfigs \cup ChainConfigs
    /\ current_indexes = <<>>
    /\ filters_applied = <<>>
    /\ drop_rules = <<>>
    /\ current_sourcetype = Null
    /\ processed_props = {}
    /\ iteration = 0
    /\ evaluated = <<>>

\* The assignments before the loop.
EnterLoop ==
    /\ tpc = "start"
    /\ LET loc == InitialLocals(tcfg.input)
       IN  /\ current_indexes' = loc.current_indexes
           /\ filters_applied' = loc.filters_applied
           /\ drop_rules' = loc.drop_rules
           /\ current_sourcetype' = loc.current_sourcetype
           /\ processed_props' = loc.processed_props
    /\ iteration' = 0
    /\ tpc' = "loop"
    /\ UNCHANGED <<tcfg, evaluated, pvars, mvars, gvars, svars, jvars, cvars>>

\* One pass of the while body; the function returns when the body breaks.
Iterate ==
    /\ tpc = "loop"
    /\ LoopGuard(iteration)
    /\ iteration' = iteration + 1
    /\ LET loc == [ current_indexes |-> current_indexes,
                    filters_applied |-> filters_applied,
                    drop_rules |-> drop_rules,
                    current_sourcetype |-> current_sourcetype,
                    processed_props |-> processed_props,
                    evaluated |-> evaluated,
                    sourcetype_changed |-> FALSE ]
           out == LoopBody(tcfg, loc)
       IN  /\ current_indexes' = out.current_indexes
           /\ filters_applied' = out.filters_applied
           /\ drop_rules' = out.drop_rules
           /\ current_sourcetype' = out.current_sourcetype
           /\ processed_props' = out.processed_props
           /\ evaluated' = out.evaluated
           /\ tpc' = IF out.sourcetype_changed THEN "loop" ELSE "done"
    /\ UNCHANGED <<tcfg, pvars, mvars, gvars, svars, jvars, cvars>>

\* The while condition fails: the function returns what it has.
ExitLoop ==
    /\ tpc = "loop"
    /\ ~LoopGuard(iteration)
    /\ tpc' = "done"
    /\ UNCHANGED <<tcfg, current_indexes, filters_applied, drop_rules,
                   current_sourcetype, processed_props, iteration, evaluated,
                   pvars, mvars, gvars, svars, jvars, cvars>>

TransformsNext == EnterLoop \/ Iterate \/ ExitLoop

SpecTransforms == TransformsInit /\ [][TransformsNext]_vars


\* How far a run of apply_transforms_to_index has come: it grows with every
\* step and is largest when the function has returned.
TransformsProgress ==
    CASE tpc = "start" -> 0
      [] tpc = "loop" -> 1 + iteration
      [] OTHER -> 12

\* C4: apply_transforms_to_index terminates, after at most 10 passes of its
\* outer loop, and returns a result; also for rewrites that cycle. The loop
\* counter never passes 10, every step of a run brings it nearer to the
\* return, and it returns after 1 to 10 passes.
C4_TransformLoopTerminates ==
    /\ [](iteration <= 10)
    /\ [](tpc = "done" => iteration \in 1..10)
    /\ [][TransformsProgress' > TransformsProgress]_vars

\* A cycle of rewrites that the iteration bound ends: ten passes, each with a
\* rewrite that changed the sourcetype.
C4_Witness ==
    /\ tpc = "done"
    /\ \E len \in 1..MaxChain : tcfg = ChainConfig(len, TRUE)
    /\ iteration = 10
    /\ Len(filters_applied) = 10

\* C5: in one run, no props stanza is evaluated twice for the same
\* (props kind, props value, sourcetype it was matched against).
C5_NoReevaluation ==
    \A i, j \in DOMAIN evaluated : evaluated[i] = evaluated[j] => i = j

\* The case of test_apply_transforms_precedence: a host, a source and a
\* sourcetype stanza match the input, each with one index-routing transform.
PrecedenceCase(cfg) ==
    /\ cfg \in SomeConfigs
    /\ cfg.input.sourcetype = "test_st"
    /\ Len(cfg.props) = 3
    /\ cfg.props[1] = Props("sourcetype", "test_st", <<"transform_sourcetype">>)
    /\ cfg.props[2].stanza_type = "source"
    /\ cfg.props[2].stanza_value # "/opt/*"
    /\ cfg.props[2].transforms = <<"transform_source">>
    /\ cfg.props[3] = Props("host", "testhost", <<"transform_host">>)

\* C10: when host, source and sourcetype stanzas all match, the returned
\* index list holds only the sourcetype-level index, and the filter trace
\* records all three transforms.
C10_PropsPrecedence ==
    (tpc = "done" /\ PrecedenceCase(tcfg)) =>
        /\ current_indexes = <<"st_index">>
        /\ \A t \in {"transform_host", "transform_source", "transform_sourcetype"} :
               \E i \in DOMAIN filters_applied : filters_applied[i] = "TRANSFORMS:" \o t


\* ------------------------------------------------------------------------
\* resolver.py: build_canonical_graph

GENERATOR == "splunk-autodoc-v2.0"

ROLE_PATTERNS ==
    << [role |-> "universal_forwarder", patterns |-> <<"splunkforwarder", "uf_", "forwarder">>],
       [role |-> "heavy_forwarder", patterns |-> <<"heavy", "hf_", "Splunk_TA_", "SA-">>],
       [role |-> "indexer", patterns |-> <<"idx", "indexer", "cluster_master", "cluster_peer">>],
       [role |-> "search_head", patterns |-> <<"search", "sh_", "deployer">>] >>

\* pattern in text / re.search(pattern, text), on the lower-cased host and
\* app names that occur.
Contains(text, pattern) ==
    <<text, pattern>> \in
        { <<"idx1", "idx">>, <<"idx2", "idx">>,
          <<"hf_east", "hf_">>, <<"hf_east", "hf">>,
          <<"uf01", "uf">>, <<"uf01.lan", "uf">>,
          <<"splunk_ta_nix", "splunk_ta_">>, <<"splunk_ta_nix", "ta_">> }

\* str.lower() on host and app names.
LowerName(n) == IF n = "Splunk_TA_nix" THEN "splunk_ta_nix" ELSE n

\* re.sub(r"[^a-zA-Z0-9_-]", "_", hostname), on the names that occur.
Sanitize(hostname) ==
    CASE hostname = "uf01.lan" -> "uf01_lan"
      [] OTHER -> hostname

extract_hostname(pc) ==
    LET hostname == IF pc.host_metadata.hostname = Null THEN ""
                    ELSE pc.host_metadata.hostname
        job_id == IF pc.host_metadata.job_id = Null THEN "unknown"
                  ELSE pc.host_metadata.job_id
    IN  Sanitize(IF hostname = "" THEN "host_" \o job_id ELSE hostname)

RECURSIVE PatternRoles(_, _, _, _)
\* The loop over ROLE_PATTERNS: the first role not yet held whose patterns
\* match the host name or an app name is appended, and the loop ends.
PatternRoles(roles, rest, hostname, app_names) ==
    IF rest = <<>> THEN roles
    ELSE LET role == Head(rest).role
             patterns == Head(rest).patterns
         IN  IF role \in SeqToSet(roles)
             THEN PatternRoles(roles, Tail(rest), hostname, app_names)
             ELSE IF \/ \E i \in DOMAIN patterns : Contains(hostname, patterns[i])
                     \/ \E j \in DOMAIN app_names :
                            \E i \in DOMAIN patterns : Contains(app_names[j], patterns[i])
             THEN Append(roles, role)
             ELSE PatternRoles(roles, Tail(rest), hostname, app_names)

\* The roles the configuration rules of infer_host_roles give, before the
\* loop over ROLE_PATTERNS.
ConfigRoles(pc) ==
    LET has_outputs == pc.outputs # <<>>
        has_props == pc.props # <<>>
        has_transforms == pc.transforms # <<>>
        apps == pc.host_metadata.apps
        app_names == [i \in DOMAIN apps |-> LowerName(apps[i])]
        has_parsing_apps ==
            \E i \in DOMAIN app_names :
                \/ Contains(app_names[i], "splunk_ta_")
                \/ Contains(app_names[i], "sa-")
                \/ Contains(app_names[i], "ta-")
        has_search_apps == \E i \in DOMAIN app_names : Contains(app_names[i], "search")
        enabled == SelectSeq(pc.inputs, LAMBDA inp : ~inp.disabled)
        has_splunktcp_input ==
            \E i \in DOMAIN enabled : enabled[i].input_type = "splunktcp"
        has_data_inputs ==
            \E i \in DOMAIN enabled :
                enabled[i].input_type \in {"monitor", "tcp", "udp", "script", "WinEventLog"}
        r1 == IF has_splunktcp_input /\ ~has_outputs THEN <<"indexer">>
              ELSE IF has_splunktcp_input /\ has_outputs
                      /\ ~has_parsing_apps /\ ~has_props
              THEN <<"indexer">>
              ELSE <<>>
        r2 == IF has_data_inputs /\ has_outputs
                 /\ (has_parsing_apps \/ has_props \/ has_transforms)
              THEN Append(r1, "heavy_forwarder") ELSE r1
        r3 == IF has_data_inputs /\ has_outputs /\ ~has_parsing_apps /\ ~has_props
                 /\ ~has_transforms /\ "heavy_forwarder" \notin SeqToSet(r2)
              THEN Append(r2, "universal_forwarder") ELSE r2
    IN  IF has_search_apps /\ ~has_data_inputs
        THEN Append(r3, "search_head") ELSE r3

infer_host_roles(pc) ==
    LET apps == pc.host_metadata.apps
        app_names == [i \in DOMAIN apps |-> LowerName(apps[i])]
        hostname == LowerName(IF pc.host_metadata.hostname = Null THEN ""
                              ELSE pc.host_metadata.hostname)
        r5 == PatternRoles(ConfigRoles(pc), ROLE_PATTERNS, hostname, app_names)
    IN  IF r5 = <<>> THEN <<"unknown">> ELSE r5

Host(id, roles, labels, apps) ==
    [ id |-> id, roles |-> roles, labels |-> labels, apps |-> apps ]

build_host(pc) ==
    LET env == IF NonEmpty(pc.host_metadata.environment)
               THEN <<"env:" \o pc.host_metadata.environment>> ELSE <<>>
        cluster == IF NonEmpty(pc.host_metadata.cluster)
                   THEN <<"cluster:" \o pc.host_metadata.cluster>> ELSE <<>>
    IN  Host(extract_hostname(pc), infer_host_roles(pc), env \o cluster,
             pc.host_metadata.apps)

PROTOCOL_MAPPINGS ==
    << <<"monitor", "splunktcp", "forwarding">>,
       <<"tcp", "tcp", "syslog">>,
       <<"udp", "udp", "syslog">>,
       <<"splunktcp", "splunktcp", "forwarding">>,
       <<"http", "http_event_collector", "hec">>,
       <<"script", "splunktcp", "scripted_input">>,
       <<"WinEventLog", "splunktcp", "modinput">>,
       <<"modular_input", "splunktcp", "modinput">> >>

\* input_type.lower().startswith(key.lower()), on the input types
\* parse_inputs_conf produces.
TypeStartsWith(input_type, key) ==
    \/ input_type = key
    \/ input_type = "splunktcp" /\ key = "splunktcp"

\* determine_protocol_and_path_kind without its table.
determine_protocol_and_path_kind_default(input_stanza) == <<"splunktcp", "forwarding">>

\* (protocol, path_kind)
determine_protocol_and_path_kind(input_stanza) ==
    LET hits == SelectSeq(PROTOCOL_MAPPINGS,
                          LAMBDA mp : TypeStartsWith(input_stanza.input_type, mp[1]))
    IN  IF hits # <<>> THEN <<Head(hits)[2], Head(hits)[3]>>
        ELSE <<"splunktcp", "forwarding">>

\* server.split(":")[0].strip()
HostPart(server) ==
    CASE server = "idx1:9997" -> "idx1"
      [] server = "idx2:9997" -> "idx2"
      [] server = ":9997" -> ""
      [] OTHER -> server

\* bool(v) of a bool | None or str | None value
Bool(v) == v \notin {Null, False, ""}

\* The targets of a group with the SSL flag as the only sign of TLS.
GroupTargets_flag_only(group) ==
    IF Bool(group.indexer_discovery)
    THEN << [host |-> "indexer_discovery:" \o group.indexer_discovery,
             tls |-> Bool(group.ssl_enabled), group |-> group.group_name] >>
    ELSE LET parts == [i \in DOMAIN group.servers |->
                          [host |-> HostPart(group.servers[i]),
                           tls |-> Bool(group.ssl_enabled), group |-> group.group_name]]
         IN  SelectSeq(parts, LAMBDA t : t.host # "")

GroupTargets(group) ==
    LET tls_enabled == Bool(group.ssl_enabled) \/ Bool(group.ssl_cert_path)
    IN  IF Bool(group.indexer_discovery)
        THEN << [host |-> "indexer_discovery:" \o group.indexer_discovery,
                 tls |-> tls_enabled, group |-> group.group_name] >>
        ELSE LET parts == [i \in DOMAIN group.servers |->
                              [host |-> HostPart(group.servers[i]),
                               tls |-> tls_enabled, group |-> group.group_name]]
             IN  SelectSeq(parts, LAMBDA t : t.host # "")

resolve_output_targets(output_groups) ==
    Concat([i \in DOMAIN output_groups |-> GroupTargets(output_groups[i])])


\* is_ambiguous_routing, as the claim's opposite case has it: never.
is_ambiguous_routing_never(outputs) == FALSE

is_ambiguous_routing(outputs) ==
    LET has_default_group == \E i \in DOMAIN outputs : outputs[i].default_group
    IN  Len(outputs) > 1 /\ ~has_default_group

\* One Edge of build_edges_from_inputs_outputs: the fields every edge of an
\* input stanza shares, and the three that depend on the target.
Edge(input_stanza, src_host, path_kind, applied, dst, tls, confidence) ==
    [ src_host |-> src_host.id,
      dst_host |-> dst,
      protocol |-> "splunktcp",
      path_kind |-> path_kind,
      sources |-> IF NonEmpty(input_stanza.stanza_name)
                  THEN <<input_stanza.stanza_name>> ELSE <<>>,
      sourcetypes |-> IF NonEmpty(input_stanza.sourcetype)
                      THEN <<input_stanza.sourcetype>> ELSE <<>>,
      indexes |-> applied[1],
      filters |-> applied[2],
      drop_rules |-> applied[3],
      tls |-> tls,
      weight |-> 1,
      app_contexts |-> IF NonEmpty(input_stanza.source_app)
                       THEN <<input_stanza.source_app>> ELSE <<>>,
      confidence |-> confidence ]

\* The edges of one input stanza: none when it is disabled, one to
\* "unknown_destination" when there is no output target, else one per target.
InputEdges(input_stanza, pc, src_host, output_targets) ==
    IF input_stanza.disabled THEN <<>>
    ELSE
        LET dsts ==
                IF output_targets = <<>>
                THEN << [host |-> "unknown_destination", tls |-> Null,
                         confidence |-> "derived"] >>
                ELSE [i \in DOMAIN output_targets |->
                         [host |-> output_targets[i].host,
                          tls |-> IF output_targets[i].tls THEN True ELSE False,
                          confidence |-> IF is_ambiguous_routing(pc.outputs)
                                         THEN "derived" ELSE "explicit"]]
        IN  [i \in DOMAIN dsts |->
                Edge(input_stanza, src_host,
                     determine_protocol_and_path_kind(input_stanza)[2],
                     apply_transforms_to_index(input_stanza, pc.props, pc.transforms),
                     dsts[i].host, dsts[i].tls, dsts[i].confidence)]

\* Edges for every input stanza, the disabled ones too.
build_edges_from_inputs_outputs_all(pc, src_host) ==
    Concat([i \in DOMAIN pc.inputs |->
               InputEdges([pc.inputs[i] EXCEPT !.disabled = FALSE], pc, src_host,
                          resolve_output_targets(pc.outputs))])

build_edges_from_inputs_outputs(pc, src_host) ==
    LET output_targets == resolve_output_targets(pc.outputs)
    IN  Concat([i \in DOMAIN pc.inputs |->
                   InputEdges(pc.inputs[i], pc, src_host, output_targets)])

\* unknown_hosts without the test against known_hosts.
UnknownHosts_every_destination(edges, known_hosts) ==
    {edges[i].dst_host : i \in DOMAIN edges}

\* The set unknown_hosts of create_placeholder_hosts.
UnknownHosts(edges, known_hosts) ==
    {edges[i].dst_host : i \in DOMAIN edges} \ known_hosts

\* host_id.startswith("indexer_discovery:"), on the ids that occur.
StartsWithIndexerDiscovery(host_id) == host_id \in {"indexer_discovery:cm"}

PlaceholderHost(host_id) ==
    LET host_lower == LowerName(host_id)
    IN  IF host_id = "unknown_destination"
        THEN Host(host_id, <<"unknown">>, <<"placeholder">>, <<>>)
        ELSE IF StartsWithIndexerDiscovery(host_id)
        THEN Host(host_id, <<"indexer">>, <<"indexer_discovery", "placeholder">>, <<>>)
        ELSE IF Contains(host_lower, "idx") \/ Contains(host_lower, "indexer")
        THEN Host(host_id, <<"indexer">>, <<"placeholder">>, <<>>)
        ELSE IF Contains(host_lower, "hf") \/ Contains(host_lower, "heavy")
        THEN Host(host_id, <<"heavy_forwarder">>, <<"placeholder">>, <<>>)
        ELSE IF Contains(host_lower, "uf") \/ Contains(host_lower, "forwarder")
        THEN Host(host_id, <<"universal_forwarder">>, <<"placeholder">>, <<>>)
        ELSE IF Contains(host_lower, "search") \/ Contains(host_lower, "sh")
        THEN Host(host_id, <<"search_head">>, <<"placeholder">>, <<>>)
        ELSE Host(host_id, <<"unknown">>, <<"placeholder">>, <<>>)

\* The orders in which a set can be iterated.
Orderings(S) ==
    {o \in [1..Cardinality(S) -> S] : \A i, j \in DOMAIN o : o[i] = o[j] => i = j}

\* No placeholder host at all.
create_placeholder_hosts_none(order) == <<>>

\* create_placeholder_hosts, iterating unknown_hosts in the given order.
create_placeholder_hosts(order) == [i \in DOMAIN order |-> PlaceholderHost(order[i])]

RECURSIVE InputCounts(_, _)
\* input_counts[inp_type] = input_counts.get(inp_type, 0) + 1
InputCounts(counts, inputs) ==
    IF inputs = <<>> THEN counts
    ELSE LET t == Head(inputs).input_type
             n == IF t \in DOMAIN counts THEN counts[t] ELSE 0
         IN  InputCounts([k \in DOMAIN counts \cup {t} |->
                             IF k = t THEN n + 1 ELSE counts[k]],
                         Tail(inputs))

\* The values of the traceability map are lists of file names, written
\* [kind |-> "list", value |-> files], and the dict build_graph_metadata
\* keeps under "resolver", written [kind |-> "dict", value |-> dict].

\* meta.traceability["resolver"]["input_counts"] = {} on a list: TypeError.
RaisesTypeError(pc) ==
    /\ "resolver" \in DOMAIN pc.traceability
    /\ pc.traceability["resolver"].kind = "list"

\* parsed.traceability after build_graph_metadata wrote its "resolver" entry
\* into it.
ResolverTraceability(pc) ==
    LET resolver ==
            [ input_counts |-> InputCounts(EmptyFn, pc.inputs),
              output_group_count |-> Len(pc.outputs),
              props_count |-> Len(pc.props),
              transforms_count |-> Len(pc.transforms),
              apps_found |-> pc.host_metadata.apps ]
    IN  [k \in DOMAIN pc.traceability \cup {"resolver"} |->
            IF k = "resolver" THEN [kind |-> "dict", value |-> resolver]
            ELSE pc.traceability[k]]

build_graph_metadata(pc, hosts, edges, now) ==
    [ generator |-> GENERATOR,
      generated_at |-> now,
      host_count |-> Len(hosts),
      edge_count |-> Len(edges),
      source_hosts |->
          LET real == SelectSeq(hosts, LAMBDA h : "placeholder" \notin SeqToSet(h.labels))
          IN  [i \in DOMAIN real |-> real[i].id],
      traceability |-> ResolverTraceability(pc) ]

\* The check at the head of build_canonical_graph.
RaisesValueError(pc) == pc.inputs = <<>> /\ pc.outputs = <<>>

MergedEdges(pc) ==
    merge_similar_edges(build_edges_from_inputs_outputs(pc, build_host(pc)))

\* The canonical JSON, for one iteration order of the placeholder set and
\* one reading of the clock.
build_canonical_graph(pc, order, now) ==
    LET host == build_host(pc)
        edges == MergedEdges(pc)
        all_hosts == <<host>> \o create_placeholder_hosts(order)
    IN  [ hosts |-> all_hosts,
          edges |-> edges,
          meta |-> build_graph_metadata(pc, all_hosts, edges, now) ]


\* ------------------------------------------------------------------------
\* validator.py: validate_graph

\* splunktcp as the only protocol that requires TLS.
TLS_REQUIRED_PROTOCOLS_splunktcp_only == {"splunktcp"}

TLS_REQUIRED_PROTOCOLS == {"splunktcp", "http_event_collector"}

\* The placeholder test with the label check alone.
is_placeholder_host_label_only(host) == "placeholder" \in SeqToSet(host.labels)

is_placeholder_host(host) ==
    \/ "placeholder" \in SeqToSet(host.labels)
    \/ host.id = "unknown_destination"
    \/ StartsWithIndexerDiscovery(host.id)
    \/ "unknown" \in SeqToSet(host.roles)

get_placeholder_host_ids(hosts) ==
    {hosts[i].id : i \in {j \in DOMAIN hosts :
                            is_placeholder_host(hosts[j]) /\ hosts[j].id # ""}}

\* Every index of every edge counted as known.
collect_known_indexes_all(edges, placeholder_host_ids) ==
    UNION {SeqToSet(edges[i].indexes) : i \in DOMAIN edges}

collect_known_indexes(edges, placeholder_host_ids) ==
    UNION {SeqToSet(edges[i].indexes) :
              i \in {j \in DOMAIN edges :
                        /\ edges[j].dst_host # ""
                        /\ edges[j].dst_host \notin placeholder_host_ids}}

\* context, with "meta" added when the graph's meta is not empty
WithMeta(context, meta) ==
    IF meta = EmptyFn THEN context
    ELSE [k \in DOMAIN context \cup {"meta"} |->
             IF k = "meta" THEN meta ELSE context[k]]

Finding(code, severity, message, context, meta) ==
    [ code |-> code, severity |-> severity, message |-> message,
      context |-> WithMeta(context, meta) ]

RECURSIVE Join(_)
\* ", ".join(list)
Join(list) ==
    IF list = <<>> THEN ""
    ELSE IF Len(list) = 1 THEN list[1]
    ELSE list[1] \o ", " \o Join(Tail(list))

DanglingFinding(edge, meta) ==
    Finding("DANGLING_OUTPUT", "error",
            "Output from " \o edge.src_host \o " to " \o edge.dst_host
                \o " is dangling (destination unreachable or undefined)",
            [ src_host |-> edge.src_host, dst_host |-> edge.dst_host,
              protocol |-> edge.protocol, sources |-> edge.sources,
              indexes |-> edge.indexes ],
            meta)

detect_dangling_outputs(hosts, edges, meta) ==
    LET placeholder_host_ids == get_placeholder_host_ids(hosts)
        hit == SelectSeq(edges, LAMBDA e : /\ e.dst_host # ""
                                           /\ e.dst_host \in placeholder_host_ids)
    IN  [i \in DOMAIN hit |-> DanglingFinding(hit[i], meta)]

UnknownIndexFinding(edge, index, meta) ==
    Finding("UNKNOWN_INDEX", "warning",
            "Edge from " \o edge.src_host \o " to " \o edge.dst_host
                \o " references unknown index '" \o index \o "'",
            [ src_host |-> edge.src_host, dst_host |-> edge.dst_host,
              index |-> index, protocol |-> edge.protocol,
              sourcetypes |-> edge.sourcetypes ],
            meta)

\* One finding per entry of edge.indexes that is not a known index.
EdgeUnknownIndexes(edge, known_indexes, meta) ==
    LET unknown == SelectSeq(edge.indexes, LAMBDA ix : ix \notin known_indexes)
    IN  [i \in DOMAIN unknown |-> UnknownIndexFinding(edge, unknown[i], meta)]

detect_unknown_indexes(edges, known_indexes, meta) ==
    Concat([i \in DOMAIN edges |-> EdgeUnknownIndexes(edges[i], known_indexes, meta)])

\* edge.get("tls"): None when the edge has no such key
EdgeTls(edge) == IF "tls" \in DOMAIN edge THEN edge.tls ELSE Null

UnsecuredFinding(edge, meta) ==
    Finding("UNSECURED_PIPE", "warning",
            edge.protocol \o " connection from " \o edge.src_host \o " to "
                \o edge.dst_host \o " does not use TLS",
            [ src_host |-> edge.src_host, dst_host |-> edge.dst_host,
              protocol |-> edge.protocol, tls |-> EdgeTls(edge),
              sources |-> edge.sources ],
            meta)

detect_unsecured_pipes(edges, meta) ==
    LET hit == SelectSeq(edges, LAMBDA e : /\ e.protocol \in TLS_REQUIRED_PROTOCOLS
                                           /\ EdgeTls(e) \in {False, Null})
    IN  [i \in DOMAIN hit |-> UnsecuredFinding(hit[i], meta)]

DropFinding(edge, meta) ==
    Finding("DROP_PATH", "info",
            "Data from " \o edge.src_host \o " is dropped via nullQueue: "
                \o Join(edge.drop_rules),
            [ src_host |-> edge.src_host, dst_host |-> edge.dst_host,
              drop_rules |-> edge.drop_rules, sources |-> edge.sources,
              sourcetypes |-> edge.sourcetypes, filters |-> edge.filters ],
            meta)

detect_drop_paths(edges, meta) ==
    LET hit == SelectSeq(edges, LAMBDA e : e.drop_rules # <<>>)
    IN  [i \in DOMAIN hit |-> DropFinding(hit[i], meta)]

AmbiguousFinding(edge, meta) ==
    Finding("AMBIGUOUS_GROUP", "warning",
            "Ambiguous routing from " \o edge.src_host \o " to " \o edge.dst_host
                \o ": multiple output groups without defaultGroup",
            [ src_host |-> edge.src_host, dst_host |-> edge.dst_host,
              protocol |-> edge.protocol, confidence |-> edge.confidence,
              sources |-> edge.sources ],
            meta)

detect_ambiguous_groups(edges, meta) ==
    LET hit == SelectSeq(edges, LAMBDA e : e.confidence = "derived")
    IN  [i \in DOMAIN hit |-> AmbiguousFinding(hit[i], meta)]

validate_graph(graph_json) ==
    LET hosts == graph_json.hosts
        edges == graph_json.edges
        meta == graph_json.meta
    IN  IF hosts = <<>> /\ edges = <<>> THEN <<>>
        ELSE LET placeholder_host_ids == get_placeholder_host_ids(hosts)
                 known_indexes == collect_known_indexes(edges, placeholder_host_ids)
             IN  detect_dangling_outputs(hosts, edges, meta)
                     \o detect_unknown_indexes(edges, known_indexes, meta)
                     \o detect_unsecured_pipes(edges, meta)
                     \o detect_drop_paths(edges, meta)
                     \o detect_ambiguous_groups(edges, meta)


\* ------------------------------------------------------------------------
\* The parsed configurations the pipeline is run on.

\* match.group(1) of the stanza-name patterns that capture a path.
SourcePathOf(name) ==
    CASE name = "monitor:///var/log/test.log" -> "/var/log/test.log"
      [] name = "monitor:///opt/app.log" -> "/opt/app.log"
      [] OTHER -> Null

ParsedInput(name, sourcetype, index, host, disabled, app) ==
    [ stanza_name |-> name,
      input_type |-> InputTypeOf(name),
      source_path |-> SourcePathOf(name),
      sourcetype |-> sourcetype,
      index |-> index,
      host |-> host,
      disabled |-> disabled,
      source_app |-> app ]

\* Each input stanza is absent or present in one of its variants; the list
\* keeps the order of the merged map.
SomeInputLists ==
    { Concat(<<a, b, c, d>>) :
        a \in { <<>>,
                <<ParsedInput("monitor:///var/log/test.log", "test_st", Null, "testhost", FALSE, "app1")>>,
                <<ParsedInput("monitor:///var/log/test.log", "test_st", "idx_a", "testhost", FALSE, "app1")>>,
                <<ParsedInput("monitor:///var/log/test.log", "test_st", Null, "testhost", TRUE, "app1")>> },
        b \in { <<>>,
                <<ParsedInput("monitor:///opt/app.log", Null, "main", Null, FALSE, "app2")>> },
        c \in { <<>>,
                <<ParsedInput("tcp://:9999", "syslog", Null, Null, FALSE, Null)>> },
        d \in { <<>>,
                <<ParsedInput("splunktcp://:9997", Null, Null, Null, FALSE, Null)>> } }

ParsedGroup(name, servers, ssl_enabled, ssl_cert_path, discovery, default) ==
    [ group_name |-> name,
      servers |-> servers,
      default_group |-> default,
      ssl_enabled |-> ssl_enabled,
      ssl_cert_path |-> ssl_cert_path,
      indexer_discovery |-> discovery ]

SomeOutputLists ==
    { <<>>,
      <<ParsedGroup("g1", <<>>, Null, Null, Null, FALSE)>>,
      <<ParsedGroup("g1", <<":9997">>, Null, Null, Null, TRUE)>>,
      <<ParsedGroup("g1", <<>>, False, Null, "cm", FALSE)>>,
      <<ParsedGroup("g1", <<>>, Null, Null, Null, FALSE),
        ParsedGroup("g2", <<>>, Null, Null, Null, FALSE)>> }
    \cup { <<ParsedGroup("g1", <<"idx1:9997">>, ssl, Null, Null, d)>> :
              ssl \in {Null, True, False}, d \in BOOLEAN }
    \cup { <<ParsedGroup("g1", <<"idx1:9997", "idx2:9997">>, Null, "/etc/cert.pem", Null, FALSE)>> }
    \cup { <<ParsedGroup("g1", <<"idx1:9997">>, True, "/etc/cert.pem", Null, TRUE)>> }
    \cup { <<ParsedGroup("g1", <<"idx1:9997">>, ssl1, Null, Null, d1),
             ParsedGroup("g2", <<srv2>>, ssl2, Null, Null, d2)>> :
              ssl1 \in {True, False}, ssl2 \in {Null, True},
              srv2 \in {"idx1:9997", "idx2:9997"},
              d1 \in BOOLEAN, d2 \in BOOLEAN }

\* props.conf and transforms.conf together: none, the three index-routing
\* levels, or a drop on the sourcetype.
SomeRouting ==
    { [props |-> <<>>, transforms |-> <<>>],
      [props |-> << Props("host", "testhost", <<"transform_host">>),
                    Props("source", "/var/log/*", <<"transform_source">>),
                    Props("sourcetype", "test_st", <<"transform_sourcetype">>) >>,
       transforms |-> SomeTransforms],
      [props |-> << Props("sourcetype", "test_st", <<"drop_debug">>) >>,
       transforms |-> SomeTransforms],
      [props |-> << Props("sourcetype", "test_st", <<"resolver">>) >>,
       transforms |-> << Transform("resolver", "index", "idx_b") >>] }

HostMetadata(hostname, apps) ==
    [ hostname |-> hostname, job_id |-> "7", apps |-> apps,
      environment |-> Null, cluster |-> Null ]

SomeHostMetadata ==
    { HostMetadata(Null, <<>>),
      HostMetadata("uf01.lan", <<>>),
      HostMetadata("idx1", <<>>),
      HostMetadata("hf_east", <<"Splunk_TA_nix">>) }

\* The traceability map parse_splunk_config builds: the stanza names of the
\* four lists, each with the files that define the stanza (one file here).
ParserTraceability(inputs, outputs, props, transforms) ==
    LET input_keys == {inputs[i].stanza_name : i \in DOMAIN inputs}
        output_keys == {"tcpout:" \o outputs[i].group_name : i \in DOMAIN outputs}
        props_keys == {props[i].stanza_type \o "::" \o props[i].stanza_value :
                          i \in DOMAIN props}
        transform_keys == {transforms[i].stanza_name : i \in DOMAIN transforms}
    IN  [k \in input_keys \cup output_keys \cup props_keys \cup transform_keys |->
            [ kind |-> "list",
              value |-> IF k \in input_keys THEN <<"system/local/inputs.conf">>
                        ELSE IF k \in output_keys THEN <<"system/local/outputs.conf">>
                        ELSE IF k \in props_keys THEN <<"system/local/props.conf">>
                        ELSE <<"system/local/transforms.conf">> ]]

SomeParsedConfigs ==
    { [ inputs |-> i, outputs |-> o, props |-> r.props,
        transforms |-> r.transforms, host_metadata |-> h,
        traceability |-> ParserTraceability(i, o, r.props, r.transforms) ] :
        i \in SomeInputLists, o \in SomeOutputLists, r \in SomeRouting,
        h \in SomeHostMetadata }

\* datetime.now(UTC).isoformat() at two moments.
Times == {"2026-01-01T00:00:00+00:00", "2026-01-01T00:00:01+00:00"}

GraphInit ==
    /\ JobsIdle
    /\ ConcurrentIdle
    /\ StoreIdle
    /\ ParserIdle
    /\ MergerIdle
    /\ TransformsIdle
    /\ gpc = "resolve"
    /\ parsed \in SomeParsedConfigs
    /\ graph = EmptyFn
    /\ findings = <<>>

\* build_canonical_graph(parsed): raises ValueError on an empty
\* configuration and TypeError when the traceability map has a list under
\* "resolver", else returns the graph and leaves its "resolver" entry in
\* parsed.traceability.
BuildCanonicalGraph ==
    /\ gpc = "resolve"
    /\ IF RaisesValueError(parsed)
       THEN /\ gpc' = "raised"
            /\ UNCHANGED <<parsed, graph>>
       ELSE IF RaisesTypeError(parsed)
       THEN /\ gpc' = "type_error"
            /\ UNCHANGED <<parsed, graph>>
       ELSE \E now \in Times :
            \E order \in Orderings(UnknownHosts(MergedEdges(parsed),
                                                {build_host(parsed).id})) :
                /\ graph' = build_canonical_graph(parsed, order, now)
                /\ parsed' = [parsed EXCEPT !.traceability = ResolverTraceability(parsed)]
                /\ gpc' = "validate"
    /\ UNCHANGED <<findings, pvars, mvars, tvars, svars, jvars, cvars>>

\* findings = validate_graph(graph)
ValidateGraph ==
    /\ gpc = "validate"
    /\ findings' = validate_graph(graph)
    /\ gpc' = "done"
    /\ UNCHANGED <<parsed, graph, pvars, mvars, tvars, svars, jvars, cvars>>

GraphNext == BuildCanonicalGraph \/ ValidateGraph

SpecGraph == GraphInit /\ [][GraphNext]_vars


\* ------------------------------------------------------------------------
\* The stored graphs validate_graph is run on.

\* Two real hosts, then hosts that each meet one branch of the placeholder
\* test; a graph holds the real hosts and any of the others.
OptionalHosts ==
    << Host("idx2", <<"indexer">>, <<"placeholder">>, <<>>),
       Host("unknown_destination", <<"indexer">>, <<>>, <<>>),
       Host("indexer_discovery:cm", <<"indexer">>, <<"indexer_discovery">>, <<>>),
       Host("hf1", <<"unknown">>, <<>>, <<>>) >>

SomeHostLists ==
    { << Host("uf01", <<"universal_forwarder">>, <<"env:prod">>, <<"app1">>),
         Host("idx1", <<"indexer">>, <<>>, <<>>) >>
      \o Concat([i \in 1..4 |-> IF keep[i] THEN <<OptionalHosts[i]>> ELSE <<>>]) :
        keep \in [1..4 -> BOOLEAN] }

\* An edge of a stored graph: the protocol goes with the destination, and
\* the edge of payload 1 to "indexer_discovery:cm" has no "tls" key.
GraphEdge(dst, payload) ==
    LET edge ==
            [ src_host |-> "uf01",
              dst_host |-> dst,
              protocol |-> CASE dst = "idx2" -> "http_event_collector"
                             [] dst = "hf1" -> "tcp"
                             [] OTHER -> "splunktcp",
              path_kind |-> "forwarding",
              sources |-> <<"monitor:///var/log/test.log">>,
              sourcetypes |-> <<"test_st">>,
              indexes |-> CASE payload = 1 -> <<"main">>
                            [] payload = 2 -> <<"web", "main">>
                            [] OTHER -> <<>>,
              filters |-> <<>>,
              drop_rules |-> IF payload = 3 THEN <<"DROP:drop_debug">> ELSE <<>>,
              tls |-> CASE payload = 1 -> Null [] payload = 2 -> True [] OTHER -> False,
              weight |-> payload,
              app_contexts |-> <<"app1">>,
              confidence |-> IF payload = 2 THEN "derived" ELSE "explicit" ]
    IN  IF dst = "indexer_discovery:cm" /\ payload = 1
        THEN Without(edge, {"tls"}) ELSE edge

GraphEdgeChoices ==
    { GraphEdge(dst, payload) :
        dst \in {"idx1", "idx2", "unknown_destination", "indexer_discovery:cm", "hf1"},
        payload \in 1..3 }

SomeMeta ==
    { EmptyFn,
      [ generator |-> GENERATOR, generated_at |-> "2026-01-01T00:00:00+00:00",
        host_count |-> 2, edge_count |-> 1, source_hosts |-> <<"uf01">>,
        traceability |-> EmptyFn ] }

SomeGraphs ==
    { [hosts |-> h, edges |-> e, meta |-> mt] :
        h \in SomeHostLists \cup {<<>>},
        e \in SeqsUpTo(GraphEdgeChoices, MaxGraphEdges),
        mt \in SomeMeta }

ValidateInit ==
    /\ JobsIdle
    /\ ConcurrentIdle
    /\ StoreIdle
    /\ ParserIdle
    /\ MergerIdle
    /\ TransformsIdle
    /\ gpc = "validate"
    /\ parsed = EmptyFn
    /\ graph \in SomeGraphs
    /\ findings = <<>>

SpecValidate == ValidateInit /\ [][ValidateGraph]_vars

\* ------------------------------------------------------------------------
\* Claims about the pipeline and the validator.

FindingsOf(code) == SelectSeq(findings, LAMBDA f : f.code = code)

EnabledInputs(pc) == SelectSeq(pc.inputs, LAMBDA inp : ~inp.disabled)

\* The case of C6: one enabled input and no output group.
DanglingScenario ==
    /\ gpc = "done"
    /\ parsed.outputs = <<>>
    /\ Len(EnabledInputs(parsed)) = 1

\* C6, as stated: one input and no outputs.conf give one edge to
\* "unknown_destination", one DANGLING_OUTPUT finding of severity error and no
\* UNKNOWN_INDEX finding.
C6_DanglingScenarioNoUnknownIndex ==
    DanglingScenario =>
        /\ Len(graph.edges) = 1
        /\ graph.edges[1].dst_host = "unknown_destination"
        /\ Len(FindingsOf("DANGLING_OUTPUT")) = 1
        /\ FindingsOf("DANGLING_OUTPUT")[1].severity = "error"
        /\ FindingsOf("UNKNOWN_INDEX") = <<>>

\* C6, amended: one input and no outputs.conf give one edge to
\* "unknown_destination", one DANGLING_OUTPUT finding of severity error, and
\* one UNKNOWN_INDEX finding of severity warning for every entry of that
\* edge's index list.
C6_DanglingScenario ==
    DanglingScenario =>
        /\ Len(graph.edges) = 1
        /\ graph.edges[1].dst_host = "unknown_destination"
        /\ Len(FindingsOf("DANGLING_OUTPUT")) = 1
        /\ FindingsOf("DANGLING_OUTPUT")[1].severity = "error"
        /\ LET unknown == FindingsOf("UNKNOWN_INDEX")
           IN  /\ Len(unknown) = Len(graph.edges[1].indexes)
               /\ \A i \in DOMAIN unknown :
                     /\ unknown[i].severity = "warning"
                     /\ unknown[i].context.index = graph.edges[1].indexes[i]
                     /\ unknown[i].context.dst_host = "unknown_destination"

C6_Witness ==
    /\ DanglingScenario
    /\ Len(graph.edges) = 1
    /\ graph.edges[1].indexes = <<"idx_a">>
    /\ Len(FindingsOf("DANGLING_OUTPUT")) = 1
    /\ Len(FindingsOf("UNKNOWN_INDEX")) = 1


\* The placeholder predicate as the specification words it.
PlaceholderPredicate(host) ==
    \/ \E i \in DOMAIN host.labels : host.labels[i] = "placeholder"
    \/ host.id = "unknown_destination"
    \/ StartsWithIndexerDiscovery(host.id)
    \/ \E i \in DOMAIN host.roles : host.roles[i] = "unknown"

\* The edge's dst_host is the id of a host of hosts[] that is a placeholder.
PlaceholderDst(edge) ==
    \E i \in DOMAIN graph.hosts :
        /\ graph.hosts[i].id = edge.dst_host
        /\ PlaceholderPredicate(graph.hosts[i])

\* The indexes that appear on an edge to a non-placeholder host.
IndexesOnRealEdges ==
    {ix \in UNION {SeqToSet(graph.edges[j].indexes) : j \in DOMAIN graph.edges} :
        \E j \in DOMAIN graph.edges :
            /\ ix \in SeqToSet(graph.edges[j].indexes)
            /\ ~PlaceholderDst(graph.edges[j])}

\* The index occurrences [edge, index] that are on no edge to a
\* non-placeholder host, in edge order.
UnknownOccurrences ==
    Concat([j \in DOMAIN graph.edges |->
               LET occ == [k \in DOMAIN graph.edges[j].indexes |->
                              [edge |-> j, index |-> graph.edges[j].indexes[k]]]
               IN  SelectSeq(occ, LAMBDA o : o.index \notin IndexesOnRealEdges)])

\* C7: validate_graph emits an UNKNOWN_INDEX finding, of severity warning,
\* for an index occurrence on an edge if and only if the index is on no edge
\* to a non-placeholder host; when every edge goes to a placeholder host,
\* every index occurrence is flagged.
C7_UnknownIndexRule ==
    (gpc = "done") =>
        LET got == FindingsOf("UNKNOWN_INDEX")
        IN  /\ Len(got) = Len(UnknownOccurrences)
            /\ \A i \in DOMAIN got :
                  /\ got[i].severity = "warning"
                  /\ got[i].context.index = UnknownOccurrences[i].index
                  /\ got[i].context.dst_host =
                         graph.edges[UnknownOccurrences[i].edge].dst_host
            /\ (\A j \in DOMAIN graph.edges : PlaceholderDst(graph.edges[j])) =>
                  Len(got) = Sum([j \in DOMAIN graph.edges |->
                                     Len(graph.edges[j].indexes)])

\* "main" is on an edge to a real host and on an edge to a placeholder, "web"
\* on the edge to the placeholder only: "web" alone is flagged.
C7_Witness ==
    /\ gpc = "done"
    /\ Len(graph.edges) = 2
    /\ graph.edges[1].dst_host = "idx1"
    /\ graph.edges[1].indexes = <<"main">>
    /\ PlaceholderDst(graph.edges[2])
    /\ graph.edges[2].indexes = <<"web", "main">>
    /\ Len(FindingsOf("UNKNOWN_INDEX")) = 1
    /\ FindingsOf("UNKNOWN_INDEX")[1].context.index = "web"

\* C8: validate_graph emits exactly one DANGLING_OUTPUT finding, of severity
\* error, for each edge whose dst_host is the id of a placeholder host of
\* hosts[], and none for any other edge; findings are not deduplicated.
C8_DanglingOutputRule ==
    (gpc = "done") =>
        LET got == FindingsOf("DANGLING_OUTPUT")
            dangling == SelectSeq(graph.edges, PlaceholderDst)
        IN  /\ Len(got) = Len(dangling)
            /\ \A i \in DOMAIN got :
                  /\ got[i].severity = "error"
                  /\ got[i].context.src_host = dangling[i].src_host
                  /\ got[i].context.dst_host = dangling[i].dst_host
                  /\ got[i].context.indexes = dangling[i].indexes

\* Two edges to the same host, a placeholder by its role alone, give two
\* findings.
C8_Witness ==
    /\ gpc = "done"
    /\ Len(graph.edges) = 2
    /\ graph.edges[1].dst_host = "hf1"
    /\ graph.edges[2].dst_host = "hf1"
    /\ PlaceholderDst(graph.edges[1])
    /\ Len(FindingsOf("DANGLING_OUTPUT")) = 2

\* More than one output group and none of them the default group.
NoDefaultAmongSeveral(outputs) ==
    /\ Len(outputs) > 1
    /\ \A i \in DOMAIN outputs : ~outputs[i].default_group

\* C9: with more than one output group and no default group, every edge of
\* the graph has confidence "derived" and validate_graph emits exactly one
\* AMBIGUOUS_GROUP finding per edge; with output targets and one group or a
\* default group, every edge has confidence "explicit" and there is no
\* AMBIGUOUS_GROUP finding.
C9_AmbiguousRoutingRule ==
    (gpc = "done") =>
        LET got == FindingsOf("AMBIGUOUS_GROUP")
        IN  /\ NoDefaultAmongSeveral(parsed.outputs) =>
                  /\ \A j \in DOMAIN graph.edges :
                        graph.edges[j].confidence = "derived"
                  /\ Len(got) = Len(graph.edges)
                  /\ \A i \in DOMAIN got :
                        /\ got[i].context.src_host = graph.edges[i].src_host
                        /\ got[i].context.dst_host = graph.edges[i].dst_host
            /\ ( /\ resolve_output_targets(parsed.outputs) # <<>>
                 /\ \/ Len(parsed.outputs) = 1
                    \/ \E i \in DOMAIN parsed.outputs : parsed.outputs[i].default_group ) =>
                  /\ \A j \in DOMAIN graph.edges :
                        graph.edges[j].confidence = "explicit"
                  /\ got = <<>>

\* Two groups with targets and no default: two derived edges, two findings.
C9_Witness ==
    /\ gpc = "done"
    /\ NoDefaultAmongSeveral(parsed.outputs)
    /\ resolve_output_targets(parsed.outputs) # <<>>
    /\ Len(graph.edges) >= 2
    /\ Len(FindingsOf("AMBIGUOUS_GROUP")) = Len(graph.edges)


\* ------------------------------------------------------------------------
\* merge_similar_edges on its own and inside build_canonical_graph

SpecEdges ==
    (MergerInit \/ GraphInit) /\ [][MergeSimilarEdges \/ GraphNext]_vars

RECURSIVE WeightOfKey(_, _)
\* The weights of the edges with one merge key, added up.
WeightOfKey(edges, key) ==
    IF edges = <<>> THEN 0
    ELSE (IF MergeKey(Head(edges)) = key THEN Head(edges).weight ELSE 0)
         + WeightOfKey(Tail(edges), key)

RECURSIVE TotalWeight(_)
TotalWeight(edges) ==
    IF edges = <<>> THEN 0 ELSE Head(edges).weight + TotalWeight(Tail(edges))

\* C12: each edge merge_similar_edges returns has the weights of the input
\* edges with its merge key added up, so the total weight is unchanged; and
\* every edge of a graph build_canonical_graph produced has weight >= 1, the
\* number of edges built for its merge key.
C12_WeightAdditive ==
    /\ (mpc = "done") =>
          /\ \A i \in DOMAIN mresult :
                mresult[i].weight = WeightOfKey(medges, MergeKey(mresult[i]))
          /\ TotalWeight(mresult) = TotalWeight(medges)
    /\ (gpc \in {"validate", "done"}) =>
          LET built == build_edges_from_inputs_outputs(parsed, build_host(parsed))
          IN  /\ \A i \in DOMAIN graph.edges :
                    /\ graph.edges[i].weight >= 1
                    /\ graph.edges[i].weight =
                          WeightOfKey(built, MergeKey(graph.edges[i]))
              /\ TotalWeight(graph.edges) = Len(built)

\* C12 witness: a graph was built in which one edge merges three edges and
\* another is a single edge.
C12_Witness ==
    /\ gpc = "done"
    /\ \E i, j \in DOMAIN graph.edges :
          graph.edges[i].weight = 3 /\ graph.edges[j].weight = 1


\* ------------------------------------------------------------------------
\* infer_host_roles inside build_canonical_graph

\* Some keyword of ROLE_PATTERNS occurs in the host name or in an app name.
KeywordMatches(pc) ==
    LET apps == pc.host_metadata.apps
        hostname == LowerName(IF pc.host_metadata.hostname = Null THEN ""
                              ELSE pc.host_metadata.hostname)
    IN  \E r \in DOMAIN ROLE_PATTERNS :
            \E k \in DOMAIN ROLE_PATTERNS[r].patterns :
                \/ Contains(hostname, ROLE_PATTERNS[r].patterns[k])
                \/ \E a \in DOMAIN apps :
                      Contains(LowerName(apps[a]), ROLE_PATTERNS[r].patterns[k])

\* C14: the keyword table is consulted only when no configuration rule
\* matched: a host for which some rule matched has the roles of the rules and
\* no other, and the role is "unknown" exactly when neither a rule nor a
\* keyword matched.
C14_RoleFallback ==
    (gpc \in {"validate", "done"}) =>
        LET roles == graph.hosts[1].roles
            rules == ConfigRoles(parsed)
        IN  /\ rules # <<>> => roles = rules
            /\ roles = <<"unknown">> <=> (rules = <<>> /\ ~KeywordMatches(parsed))


\* ------------------------------------------------------------------------
\* build_graph_metadata inside build_canonical_graph

\* C15: meta.source_hosts of a graph build_canonical_graph produced is the
\* list of the ids of the hosts of hosts[] that do not meet the validator's
\* placeholder predicate (label "placeholder", id "unknown_destination", id
\* prefixed "indexer_discovery:" or role "unknown").
C15_SourceHostsExcludePlaceholders ==
    (gpc \in {"validate", "done"}) =>
        LET real == SelectSeq(graph.hosts, LAMBDA h : ~is_placeholder_host(h))
        IN  graph.meta.source_hosts = [i \in DOMAIN real |-> real[i].id]


\* ------------------------------------------------------------------------
\* validator.py: validate_and_store_findings, create_findings_in_db

\* Number of runs of validate_and_store_findings that are followed.
MaxRuns == 3

\* The id of the graph that is validated, and the id of another graph.
GRAPH_ID == 1

OTHER_GRAPH_ID == GRAPH_ID + 1

\* A row of the findings table.
FindingRow(graph_id, finding_dict) ==
    [ graph_id |-> graph_id,
      severity |-> finding_dict.severity,
      code |-> finding_dict.code,
      message |-> finding_dict.message,
      context |-> finding_dict.context ]

\* query(Finding).filter(Finding.graph_id == graph_id)
RowsOfGraph(rows, graph_id) == SelectSeq(rows, LAMBDA r : r.graph_id = graph_id)

\* A delete that removes no row.
delete_findings_none(rows, graph_id) == rows

\* query(Finding).filter(Finding.graph_id == graph_id).delete()
delete_findings(rows, graph_id) == SelectSeq(rows, LAMBDA r : r.graph_id # graph_id)

\* The table after create_findings_in_db added and committed its rows.
create_findings_in_db(graph_id, dicts, rows) ==
    rows \o [i \in DOMAIN dicts |-> FindingRow(graph_id, dicts[i])]

\* The json_blob values of the graph: no host and no edge, or two real hosts
\* and a placeholder with at most one edge.
SomeBlobs ==
    { [hosts |-> <<>>, edges |-> <<>>, meta |-> EmptyFn] }
    \cup
    { [ hosts |-> << Host("uf01", <<"universal_forwarder">>, <<>>, <<"app1">>),
                     Host("idx1", <<"indexer">>, <<>>, <<>>),
                     Host("unknown_destination", <<"unknown">>, <<"placeholder">>, <<>>) >>,
        edges |-> e,
        meta |-> EmptyFn ] :
        e \in { <<>>,
                <<GraphEdge("idx1", 2)>>,
                <<GraphEdge("idx1", 3)>>,
                <<GraphEdge("unknown_destination", 2)>>,
                <<GraphEdge("unknown_destination", 3)>> } }

\* The findings table holds one row of another graph.
StoreInit ==
    /\ JobsIdle
    /\ ConcurrentIdle
    /\ ParserIdle
    /\ MergerIdle
    /\ TransformsIdle
    /\ GraphIdle
    /\ spc = "idle"
    /\ graph_row \in BOOLEAN
    /\ json_blob \in SomeBlobs
    /\ finding_dicts = <<>>
    /\ stored = << [ graph_id |-> OTHER_GRAPH_ID, severity |-> "info",
                     code |-> "DROP_PATH", message |-> "", context |-> EmptyFn ] >>
    /\ prior = <<>>
    /\ runs = 0

\* validate_and_store_findings up to the delete: the graph is queried
\* (ValueError when there is none) and validated.
QueryAndValidate ==
    /\ spc = "idle"
    /\ runs < MaxRuns
    /\ runs' = runs + 1
    /\ prior' = RowsOfGraph(stored, GRAPH_ID)
    /\ IF ~graph_row
       THEN /\ spc' = "raised"
            /\ UNCHANGED finding_dicts
       ELSE /\ finding_dicts' = validate_graph(json_blob)
            /\ spc' = "delete"
    /\ UNCHANGED <<graph_row, json_blob, stored, pvars, mvars, tvars, gvars, jvars, cvars>>

\* The delete of the graph's rows and its commit; on SQLAlchemyError the
\* session is rolled back and the error raised.
DeleteExisting ==
    /\ spc = "delete"
    /\ \E ok \in BOOLEAN :
          IF ok
          THEN /\ stored' = delete_findings(stored, GRAPH_ID)
               /\ spc' = "create"
          ELSE /\ UNCHANGED stored
               /\ spc' = "raised"
    /\ UNCHANGED <<graph_row, json_blob, finding_dicts, prior, runs,
                   pvars, mvars, tvars, gvars, jvars, cvars>>

\* create_findings_in_db: the rows are added and committed; on
\* SQLAlchemyError the session is rolled back and the error raised.
CreateFindingsInDb ==
    /\ spc = "create"
    /\ \E ok \in BOOLEAN :
          IF ok
          THEN /\ stored' = create_findings_in_db(GRAPH_ID, finding_dicts, stored)
               /\ spc' = "returned"
          ELSE /\ UNCHANGED stored
               /\ spc' = "raised"
    /\ UNCHANGED <<graph_row, json_blob, finding_dicts, prior, runs,
                   pvars, mvars, tvars, gvars, jvars, cvars>>

\* Between two runs the graph's JSON is replaced or left as it is.
GraphChanged ==
    /\ spc \in {"returned", "raised"}
    /\ json_blob' \in SomeBlobs
    /\ spc' = "idle"
    /\ UNCHANGED <<graph_row, finding_dicts, stored, prior, runs,
                   pvars, mvars, tvars, gvars, jvars, cvars>>

StoreNext == QueryAndValidate \/ DeleteExisting \/ CreateFindingsInDb \/ GraphChanged

SpecStore == StoreInit /\ [][StoreNext]_vars

\* C16: when validate_and_store_findings has returned, the rows stored for
\* the graph are the findings validate_graph computes from the graph's
\* current JSON, none of an earlier run among them, and the rows of the
\* other graph are untouched.
C16_RevalidationReplaces ==
    (spc = "returned") =>
        /\ RowsOfGraph(stored, GRAPH_ID) =
              [i \in DOMAIN validate_graph(json_blob) |->
                  FindingRow(GRAPH_ID, validate_graph(json_blob)[i])]
        /\ Len(RowsOfGraph(stored, OTHER_GRAPH_ID)) = 1

\* C16 witness: a later run returned with findings stored, after the graph's
\* JSON was changed and an earlier run had stored other findings.
C16_Witness ==
    /\ spc = "returned"
    /\ runs >= 2
    /\ prior # <<>>
    /\ RowsOfGraph(stored, GRAPH_ID) # <<>>
    /\ RowsOfGraph(stored, GRAPH_ID) # prior

\* C17: the findings are replaced in one transaction: no committed state has
\* the graph's prior findings deleted and the new ones not yet inserted, and
\* when the run raised the prior findings are still stored.
C17_OneTransaction ==
    (spc \in {"create", "raised"}) => RowsOfGraph(stored, GRAPH_ID) = prior


\* ------------------------------------------------------------------------
\* resolve_output_targets inside build_canonical_graph

\* The group's SSL flag is true or it has a certificate path.
GroupSecured(group) ==
    group.ssl_enabled = True \/ group.ssl_cert_path \notin {Null, ""}

GroupNamed(outputs, name) ==
    CHOOSE g \in SeqToSet(outputs) : g.group_name = name

UnsecuredEdges ==
    SelectSeq(graph.edges,
              LAMBDA e : /\ e.protocol \in {"splunktcp", "http_event_collector"}
                         /\ ("tls" \notin DOMAIN e \/ e.tls \in {False, Null}))

\* C19: validate_graph emits one UNSECURED_PIPE finding, of severity warning,
\* for each edge whose protocol is splunktcp or http_event_collector and
\* whose tls is false, null or missing, in edge order, and none for an edge
\* with tls true or with another protocol.
C19_UnsecuredPipeRule ==
    (gpc = "done") =>
        LET found == FindingsOf("UNSECURED_PIPE")
        IN  /\ Len(found) = Len(UnsecuredEdges)
            /\ \A i \in DOMAIN found :
                  /\ found[i].severity = "warning"
                  /\ found[i].context.src_host = UnsecuredEdges[i].src_host
                  /\ found[i].context.dst_host = UnsecuredEdges[i].dst_host
                  /\ found[i].context.protocol = UnsecuredEdges[i].protocol

\* C19 witness: a graph of two edges was validated, a splunktcp edge with
\* no "tls" key and a tcp edge with tls false, and there is one
\* UNSECURED_PIPE finding, for the first.
C19_Witness ==
    /\ gpc = "done"
    /\ Len(graph.edges) = 2
    /\ graph.edges[1].protocol = "splunktcp"
    /\ "tls" \notin DOMAIN graph.edges[1]
    /\ graph.edges[2].protocol = "tcp"
    /\ graph.edges[2].tls = False
    /\ Len(FindingsOf("UNSECURED_PIPE")) = 1
    /\ FindingsOf("UNSECURED_PIPE")[1].context.dst_host = "indexer_discovery:cm"
    /\ FindingsOf("UNSECURED_PIPE")[1].context.tls = Null


\* ------------------------------------------------------------------------
\* build_edges_from_inputs_outputs inside build_canonical_graph

\* C20: before merging there is one edge per pair of a non-disabled input
\* and an output target, in that order, when some target resolves; when none
\* resolves there is one edge per non-disabled input, to
\* "unknown_destination" with tls None and confidence "derived"; disabled
\* inputs contribute no edge.
C20_EdgeConstruction ==
    (gpc \in {"validate", "done"}) =>
        LET targets == resolve_output_targets(parsed.outputs)
            enabled == EnabledInputs(parsed)
            built == build_edges_from_inputs_outputs(parsed, build_host(parsed))
        IN  IF targets # <<>>
            THEN /\ Len(built) = Len(enabled) * Len(targets)
                 /\ \A a \in DOMAIN enabled : \A b \in DOMAIN targets :
                       LET edge == built[(a - 1) * Len(targets) + b]
                       IN  /\ edge.sources = <<enabled[a].stanza_name>>
                           /\ edge.dst_host = targets[b].host
                           /\ edge.tls \in {True, False}
            ELSE /\ Len(built) = Len(enabled)
                 /\ \A a \in DOMAIN enabled :
                       /\ built[a].sources = <<enabled[a].stanza_name>>
                       /\ built[a].dst_host = "unknown_destination"
                       /\ built[a].tls = Null
                       /\ built[a].confidence = "derived"

\* C20 witness: a graph was built from a disabled input, two enabled inputs
\* and two output targets: four edges before merging.
C20_Witness ==
    /\ gpc = "done"
    /\ Len(parsed.inputs) = 3
    /\ Len(EnabledInputs(parsed)) = 2
    /\ Len(resolve_output_targets(parsed.outputs)) = 2
    /\ Len(build_edges_from_inputs_outputs(parsed, build_host(parsed))) = 4
    /\ TotalWeight(graph.edges) = 4


\* ------------------------------------------------------------------------
\* build_canonical_graph: errors

\* C21: build_canonical_graph raises, and returns no graph, exactly when the
\* ParsedConfig has neither inputs nor outputs; for every other ParsedConfig
\* it returns a graph with hosts, edges and meta.
C21_RaisesOnlyOnEmptyConfig ==
    /\ (gpc \in {"raised", "type_error"}) =>
          /\ parsed.inputs = <<>> /\ parsed.outputs = <<>>
          /\ graph = EmptyFn
    /\ (gpc \in {"validate", "done"}) =>
          /\ parsed.inputs # <<>> \/ parsed.outputs # <<>>
          /\ DOMAIN graph = {"hosts", "edges", "meta"}


\* ------------------------------------------------------------------------
\* Malformed configuration files

\* inputs.conf files that fail to parse: the stanza with its index followed
\* by a line without "=" ("garbage"), the stanza with its index or with
\* disabled = true followed by its own header again ("repeated",
\* "repeated-disabled"), and a key line before the first header ("headless").
MalformedShapes == {"garbage", "repeated", "repeated-disabled", "headless"}

MalformedInputsFile(slot, shape) ==
    [ exists |-> TRUE,
      content |-> [s \in {InStanza} |->
                      IF shape = "repeated-disabled"
                      THEN [k \in {"disabled"} |-> "true"]
                      ELSE [k \in {"index"} |-> Val(slot, k)]],
      error |-> CASE shape = "garbage" -> "ParsingError"
                  [] shape = "headless" -> "MissingSectionHeaderError"
                  [] OTHER -> "DuplicateSectionError" ]

\* The slots that may hold a malformed inputs.conf.
MalformedSlots == {Slot("system", 0, "local"), Slot("apps", 1, "default")}

MalformedInit ==
    /\ JobsIdle
    /\ ConcurrentIdle
    /\ StoreIdle
    /\ MergerIdle
    /\ TransformsIdle
    /\ GraphIdle
    /\ ppc = "find"
    /\ conf_name = "inputs.conf"
    /\ conf_files = <<>>
    /\ merged = EmptyFn
    /\ typed = EmptyFn
    /\ \E shape \in [Slots -> InputsShapes \cup MalformedShapes] :
          /\ \A s \in Slots \ MalformedSlots : shape[s] \in InputsShapes
          /\ \E s \in MalformedSlots : shape[s] \in MalformedShapes
          /\ tree = [s \in Slots |->
                        IF shape[s] \in MalformedShapes
                        THEN MalformedInputsFile(s, shape[s])
                        ELSE InputsFile(s, shape[s])]

SpecMalformed ==
    MalformedInit /\ [][FindConfFiles \/ MergeConfLayers \/ ParseInputsConf]_vars

\* The tree with every file that fails to parse replaced by an empty file.
MalformedAsEmpty ==
    [s \in Slots |-> IF tree[s].error = Null THEN tree[s] ELSE File(EmptyFn)]

\* C22: a file that fails to parse contributes nothing: the merged map is
\* the one the layers give with that file empty, and the typed extraction
\* completes without raising.
C22_MalformedContributesNothing ==
    /\ (ppc \in {"extract", "done", "raised"}) =>
          merged = merge_conf_layers(conf_files, MalformedAsEmpty)
    /\ ppc # "raised"


\* ------------------------------------------------------------------------
\* apply_transforms_to_index: drops

\* The transforms a run has evaluated so far, in evaluation order: for every
\* evaluated props stanza, the transforms its references find.
RECURSIVE FoundTransforms(_)
FoundTransforms(refs) ==
    IF refs = <<>> THEN <<>>
    ELSE LET found == LookupTransform(tcfg.transforms, Head(refs))
         IN  (IF found = <<>> THEN <<>> ELSE <<Head(found)>>)
                 \o FoundTransforms(Tail(refs))

RECURSIVE EvaluatedTransforms(_)
EvaluatedTransforms(keys) ==
    IF keys = <<>> THEN <<>>
    ELSE LET prop == CHOOSE p \in {tcfg.props[i] : i \in DOMAIN tcfg.props} :
                         /\ p.stanza_type = Head(keys)[1]
                         /\ p.stanza_value = Head(keys)[2]
         IN  FoundTransforms(prop.transforms) \o EvaluatedTransforms(Tail(keys))

\* The position of the last drop transform of a list, 0 when it has none.
LastDrop(ts) ==
    IF \E i \in DOMAIN ts : ts[i].is_drop
    THEN CHOOSE i \in DOMAIN ts :
             ts[i].is_drop /\ \A j \in DOMAIN ts : ts[j].is_drop => j <= i
    ELSE 0

\* The FORMAT values of the index-routing transforms of a list that have one.
RoutedIndexes(ts) ==
    LET routing == SelectSeq(ts, LAMBDA t : t.is_index_routing /\ t.format \notin {Null, ""})
    IN  [i \in DOMAIN routing |-> routing[i].format]

\* C23: the running and the returned index list hold the FORMAT values of
\* the index-routing transforms evaluated after the last evaluated drop
\* transform, preceded by the input's declared (or default "main") index
\* only when no drop was evaluated; every evaluated drop leaves one marker,
\* and the transforms after a drop still leave their trace.
C23_DropSemantics ==
    (tpc \in {"loop", "done"}) =>
        LET ts == EvaluatedTransforms(evaluated)
            declared == IF tcfg.input.index \notin {Null, ""}
                        THEN tcfg.input.index ELSE "main"
            drops == SelectSeq(ts, LAMBDA t : t.is_drop)
            traced == SelectSeq(ts, LAMBDA t :
                          /\ t.is_index_routing \/ t.is_sourcetype_rewrite
                          /\ t.format \notin {Null, ""})
        IN  /\ current_indexes =
                  IF LastDrop(ts) = 0 THEN <<declared>> \o RoutedIndexes(ts)
                  ELSE RoutedIndexes(SubSeq(ts, LastDrop(ts) + 1, Len(ts)))
            /\ drop_rules = [i \in DOMAIN drops |-> "DROP:" \o drops[i].stanza_name]
            /\ filters_applied =
                  [i \in DOMAIN traced |->
                      (IF traced[i].is_index_routing THEN "TRANSFORMS:"
                       ELSE "SOURCETYPE_REWRITE:") \o traced[i].stanza_name]

\* C23 witness: a run that evaluated a drop and, after it, an index-routing
\* transform whose index is the whole returned list.
C23_Witness ==
    /\ tpc = "done"
    /\ drop_rules = <<"DROP:drop_debug">>
    /\ current_indexes = <<"source_index">>
    /\ filters_applied = <<"TRANSFORMS:transform_source">>


\* ------------------------------------------------------------------------
\* Edges of every input kind

\* One stanza name for each input kind parse_inputs_conf tells apart.
KindStanzas ==
    { "monitor:///var/log/test.log", "tcp://:9999", "udp://:514",
      "splunktcp://:9997", "http://hec_token_123", "script://./bin/run.sh",
      "WinEventLog://Security", "journald://system" }

\* props.conf with two source stanzas, a pattern and a path, that reference
\* the same index-routing transform; or none.
KindRouting ==
    { [props |-> <<>>, transforms |-> <<>>],
      [props |-> << Props("source", "/var/log/*", <<"transform_source">>),
                    Props("source", "/var/log/test.log", <<"transform_source">>) >>,
       transforms |-> SomeTransforms] }

\* Configurations with one or two inputs of any kinds, with or without an
\* output group.
KindConfigs ==
    { [ inputs |-> i, outputs |-> o, props |-> r.props, transforms |-> r.transforms,
        host_metadata |-> h,
        traceability |-> ParserTraceability(i, o, r.props, r.transforms) ] :
        r \in KindRouting,
        i \in { <<ParsedInput(a, Null, Null, Null, FALSE, Null)>> : a \in KindStanzas }
              \cup { <<ParsedInput(ab[1], Null, Null, Null, FALSE, Null),
                       ParsedInput(ab[2], Null, Null, Null, FALSE, Null)>> :
                        ab \in {x \in KindStanzas \X KindStanzas : x[1] # x[2]} },
        o \in { <<>>, <<ParsedGroup("g1", <<"idx1:9997">>, Null, Null, Null, TRUE)>> },
        h \in { HostMetadata(Null, <<>>), HostMetadata("uf01.lan", <<>>) } }

KindsInit ==
    /\ JobsIdle
    /\ ConcurrentIdle
    /\ StoreIdle
    /\ ParserIdle
    /\ MergerIdle
    /\ TransformsIdle
    /\ gpc = "resolve"
    /\ parsed \in KindConfigs
    /\ graph = EmptyFn
    /\ findings = <<>>

SpecKinds == KindsInit /\ [][BuildCanonicalGraph \/ ValidateGraph]_vars

\* The path kind of each input kind.
PathKindOf(input_type) ==
    CASE input_type \in {"monitor", "splunktcp"} -> "forwarding"
      [] input_type \in {"tcp", "udp"} -> "syslog"
      [] input_type = "http" -> "hec"
      [] input_type = "script" -> "scripted_input"
      [] input_type = "WinEventLog" -> "modinput"
      [] OTHER -> "forwarding"

\* C24: every edge of a built graph has protocol "splunktcp" whatever the
\* kinds of its inputs, and the path kind the table gives for the kind of
\* each input it carries; every input is carried by an edge.
C24_ProtocolAndPathKind ==
    (gpc \in {"validate", "done"}) =>
        /\ \A e \in DOMAIN graph.edges :
              /\ graph.edges[e].protocol = "splunktcp"
              /\ graph.edges[e].sources # <<>>
              /\ \A i \in DOMAIN parsed.inputs :
                    (\E k \in DOMAIN graph.edges[e].sources :
                        graph.edges[e].sources[k] = parsed.inputs[i].stanza_name)
                    => graph.edges[e].path_kind = PathKindOf(parsed.inputs[i].input_type)
        /\ \A i \in DOMAIN parsed.inputs :
              \E e \in DOMAIN graph.edges : \E k \in DOMAIN graph.edges[e].sources :
                  graph.edges[e].sources[k] = parsed.inputs[i].stanza_name

\* C24 witness: a udp and an http input forwarded to idx1 over splunktcp, as
\* a syslog and a hec edge.
C24_Witness ==
    /\ gpc = "done"
    /\ Len(graph.edges) = 2
    /\ graph.edges[1].sources = <<"udp://:514">>
    /\ graph.edges[1].path_kind = "syslog"
    /\ graph.edges[2].sources = <<"http://hec_token_123">>
    /\ graph.edges[2].path_kind = "hec"
    /\ \A e \in 1..2 : /\ graph.edges[e].protocol = "splunktcp"
                       /\ graph.edges[e].dst_host = "idx1"


\* A list without a repeated entry.
NoDuplicates(s) == \A i, j \in DOMAIN s : s[i] = s[j] => i = j

\* C27: in every edge of a built graph the lists indexes, filters and
\* drop_rules hold no entry twice, and validate_graph reports no index twice
\* for one edge.
C27_NoDuplicateEntries ==
    /\ (gpc \in {"validate", "done"}) =>
          \A e \in DOMAIN graph.edges :
              /\ NoDuplicates(graph.edges[e].indexes)
              /\ NoDuplicates(graph.edges[e].filters)
              /\ NoDuplicates(graph.edges[e].drop_rules)
    /\ gpc = "done" =>
          \A f, g \in DOMAIN findings :
              /\ findings[f].code = "UNKNOWN_INDEX"
              /\ findings[g].code = "UNKNOWN_INDEX"
              /\ findings[f].context.src_host = findings[g].context.src_host
              /\ findings[f].context.dst_host = findings[g].context.dst_host
              /\ findings[f].context.index = findings[g].context.index
              => f = g

\* C28: build_canonical_graph leaves the ParsedConfig it is given as it was:
\* inputs, outputs, props, transforms, host_metadata and the traceability
\* map are the same after the call as before.
C28_ParsedConfigUnchanged == [][gpc = "resolve" => parsed' = parsed]_vars

\* C29: merge_similar_edges is idempotent: its output has at most one edge
\* for each merge key, and merging the output again returns the same list.
C29_MergeIdempotent ==
    (mpc = "done") =>
        /\ \A i, j \in DOMAIN mresult :
              MergeKey(mresult[i]) = MergeKey(mresult[j]) => i = j
        /\ merge_similar_edges(mresult) = mresult

\* C29 witness: three edges, two of one key that were merged, and a result
\* of two edges.
C29_Witness ==
    /\ mpc = "done"
    /\ Len(medges) = 3
    /\ Len(mresult) = 2
    /\ MergeKey(medges[1]) = MergeKey(medges[3])
    /\ mresult[1].weight = medges[1].weight + medges[3].weight

\* ------------------------------------------------------------------------
\* Placeholder synthesis

\* C25: hosts[] of a built graph is the primary host followed by exactly one
\* host, labelled "placeholder", for every distinct edge destination other
\* than the primary host id; host ids are unique, every edge starts at the
\* primary host and ends at a host of hosts[], and meta.host_count and
\* meta.edge_count are the lengths of hosts[] and edges[].
C25_PlaceholderSynthesis ==
    (gpc \in {"validate", "done"}) =>
        LET hosts == graph.hosts
            edges == graph.edges
            primary == build_host(parsed)
            others == {edges[e].dst_host : e \in DOMAIN edges} \ {primary.id}
        IN  /\ hosts # <<>>
            /\ hosts[1] = primary
            /\ Len(hosts) = 1 + Cardinality(others)
            /\ {hosts[h].id : h \in 2..Len(hosts)} = others
            /\ \A h \in 2..Len(hosts) :
                  \E l \in DOMAIN hosts[h].labels : hosts[h].labels[l] = "placeholder"
            /\ \A g, h \in DOMAIN hosts : hosts[g].id = hosts[h].id => g = h
            /\ \A e \in DOMAIN edges :
                  /\ edges[e].src_host = primary.id
                  /\ \E h \in DOMAIN hosts : hosts[h].id = edges[e].dst_host
            /\ graph.meta.host_count = Len(hosts)
            /\ graph.meta.edge_count = Len(edges)

\* C25 witness: the host idx1 forwards to idx1 and idx2; idx2 alone gets a
\* placeholder.
C25_Witness ==
    /\ gpc = "done"
    /\ build_host(parsed).id = "idx1"
    /\ {graph.edges[e].dst_host : e \in DOMAIN graph.edges} = {"idx1", "idx2"}
    /\ Len(graph.hosts) = 2
    /\ graph.hosts[2].id = "idx2"
    /\ graph.hosts[2].labels = <<"placeholder">>


\* ------------------------------------------------------------------------
\* routers/jobs.py: create_job, processor.py: process_job

MaxJobs == 3

Uploads == {1, 2}

\* The attributes process_job sets on the Job object.
JobAttributes(row) ==
    [status |-> row.status, started_at |-> row.started_at, finished_at |-> row.finished_at]

\* db_session.commit() that succeeds: the row takes the object's attributes.
CommitJob(rows, id, obj) ==
    [rows EXCEPT ![id] = [@ EXCEPT !.status = obj.status,
                                   !.started_at = obj.started_at,
                                   !.finished_at = obj.finished_at]]

JobsInit ==
    /\ ConcurrentIdle
    /\ StoreIdle
    /\ ParserIdle
    /\ MergerIdle
    /\ TransformsIdle
    /\ GraphIdle
    /\ jpc = "idle"
    /\ jobs = <<>>
    /\ job = EmptyFn

\* create_job: refused while the upload has a pending or running job; else
\* the pending row is committed and process_job_sync is called.
CreateJob ==
    /\ jpc = "idle"
    /\ Len(jobs) < MaxJobs
    /\ \E upload_id \in Uploads :
          /\ ~\E i \in DOMAIN jobs :
                 /\ jobs[i].upload_id = upload_id
                 /\ jobs[i].status \in {"pending", "running"}
          /\ jobs' = Append(jobs, [ upload_id |-> upload_id, status |-> "pending",
                                    started_at |-> Null, finished_at |-> Null,
                                    graph |-> FALSE ])
    /\ job' = [status |-> "pending", started_at |-> Null, finished_at |-> Null]
    /\ jpc' = "start"
    /\ UNCHANGED <<pvars, mvars, tvars, gvars, svars, cvars>>

\* Step 1: status "running" and started_at, committed.  A commit that
\* fails rolls the session back, and the object shows the row again.
MarkRunning ==
    /\ jpc = "start"
    /\ \E ok \in BOOLEAN :
          LET set == [job EXCEPT !.status = "running", !.started_at = "now"]
          IN  IF ok
              THEN /\ jobs' = CommitJob(jobs, Len(jobs), set)
                   /\ job' = set
                   /\ jpc' = "extract"
              ELSE /\ job' = JobAttributes(jobs[Len(jobs)])
                   /\ jpc' = "handler"
                   /\ UNCHANGED jobs
    /\ UNCHANGED <<pvars, mvars, tvars, gvars, svars, cvars>>

\* Step 2: the archive is found and extracted, or an exception is raised.
ExtractArchive ==
    /\ jpc = "extract"
    /\ \E ok \in BOOLEAN : jpc' = IF ok THEN "parse" ELSE "handler"
    /\ UNCHANGED <<jobs, job, pvars, mvars, tvars, gvars, svars, cvars>>

\* Step 3: parse_splunk_config returns or raises.
ParseSplunkConfig ==
    /\ jpc = "parse"
    /\ \E ok \in BOOLEAN : jpc' = IF ok THEN "resolve" ELSE "handler"
    /\ UNCHANGED <<jobs, job, pvars, mvars, tvars, gvars, svars, cvars>>

\* Step 4: resolve_and_create_graph commits the Graph row of the job, or
\* rolls back and raises (build_canonical_graph raised, or the commit did).
ResolveAndCreateGraph ==
    /\ jpc = "resolve"
    /\ \E ok \in BOOLEAN :
          IF ok
          THEN /\ jobs' = [jobs EXCEPT ![Len(jobs)].graph = TRUE]
               /\ jpc' = "complete"
          ELSE /\ jpc' = "handler"
               /\ UNCHANGED jobs
    /\ UNCHANGED <<job, pvars, mvars, tvars, gvars, svars, cvars>>

\* Step 6: status "completed" and finished_at, committed.
MarkCompleted ==
    /\ jpc = "complete"
    /\ \E ok \in BOOLEAN :
          LET set == [job EXCEPT !.status = "completed", !.finished_at = "now"]
          IN  IF ok
              THEN /\ jobs' = CommitJob(jobs, Len(jobs), set)
                   /\ job' = set
                   /\ jpc' = "returned"
              ELSE /\ job' = JobAttributes(jobs[Len(jobs)])
                   /\ jpc' = "handler"
                   /\ UNCHANGED jobs
    /\ UNCHANGED <<pvars, mvars, tvars, gvars, svars, cvars>>

\* The except block: status "failed" and finished_at, committed; a commit
\* that fails here leaves process_job with its exception.
MarkFailed ==
    /\ jpc = "handler"
    /\ \E ok \in BOOLEAN :
          LET set == [job EXCEPT !.status = "failed", !.finished_at = "now"]
          IN  IF ok
              THEN /\ jobs' = CommitJob(jobs, Len(jobs), set)
                   /\ job' = set
                   /\ jpc' = "returned"
              ELSE /\ job' = JobAttributes(jobs[Len(jobs)])
                   /\ jpc' = "raised"
                   /\ UNCHANGED jobs
    /\ UNCHANGED <<pvars, mvars, tvars, gvars, svars, cvars>>

\* create_job returns the job, whether process_job_sync returned or raised.
ReturnJob ==
    /\ jpc \in {"returned", "raised"}
    /\ jpc' = "idle"
    /\ job' = EmptyFn
    /\ UNCHANGED <<jobs, pvars, mvars, tvars, gvars, svars, cvars>>

JobsNext ==
    \/ CreateJob
    \/ MarkRunning
    \/ ExtractArchive
    \/ ParseSplunkConfig
    \/ ResolveAndCreateGraph
    \/ MarkCompleted
    \/ MarkFailed
    \/ ReturnJob

SpecJobs == JobsInit /\ [][JobsNext]_vars

\* C26: the status of a job row moves only from pending to running and from
\* running to completed or failed; once process_job is over, the row is
\* completed or failed with finished_at set, whichever step failed; and a
\* completed job has its graph.
C26_JobLifecycle ==
    /\ [][\A i \in DOMAIN jobs :
              jobs'[i].status # jobs[i].status =>
                  <<jobs[i].status, jobs'[i].status>> \in
                      { <<"pending", "running">>, <<"running", "completed">>,
                        <<"running", "failed">> }]_vars
    /\ [](\A i \in DOMAIN jobs :
              (i < Len(jobs) \/ jpc \in {"returned", "raised", "idle"}) =>
                  /\ jobs[i].status \in {"completed", "failed"}
                  /\ jobs[i].finished_at # Null)
    /\ [](\A i \in DOMAIN jobs : jobs[i].status = "completed" => jobs[i].graph)


\* ------------------------------------------------------------------------
\* validator.py: two validate_and_store_findings at once

\* The two requests, each with its own session.
Procs == {1, 2}

\* The graph exists; the findings table holds a row of another graph and
\* perhaps the rows an earlier validation stored for this one.
ConcurrentInit ==
    /\ JobsIdle
    /\ ParserIdle
    /\ MergerIdle
    /\ TransformsIdle
    /\ GraphIdle
    /\ spc = "none"
    /\ graph_row = TRUE
    /\ json_blob \in SomeBlobs
    /\ finding_dicts = <<>>
    /\ \E earlier \in BOOLEAN :
          stored = << [ graph_id |-> OTHER_GRAPH_ID, severity |-> "info",
                        code |-> "DROP_PATH", message |-> "", context |-> EmptyFn ] >>
                   \o (IF earlier
                       THEN create_findings_in_db(GRAPH_ID, validate_graph(json_blob), <<>>)
                       ELSE <<>>)
    /\ prior = <<>>
    /\ runs = 0
    /\ cpc = [p \in Procs |-> "start"]
    /\ cdicts = [p \in Procs |-> <<>>]

\* The graph is queried and validated.
ConcurrentValidate(p) ==
    /\ cpc[p] = "start"
    /\ cdicts' = [cdicts EXCEPT ![p] = validate_graph(json_blob)]
    /\ cpc' = [cpc EXCEPT ![p] = "delete"]
    /\ UNCHANGED <<svars, pvars, mvars, tvars, gvars, jvars>>

\* The delete of the graph's rows and its commit.
ConcurrentDelete(p) ==
    /\ cpc[p] = "delete"
    /\ \E ok \in BOOLEAN :
          IF ok
          THEN /\ stored' = delete_findings(stored, GRAPH_ID)
               /\ cpc' = [cpc EXCEPT ![p] = "create"]
          ELSE /\ UNCHANGED stored
               /\ cpc' = [cpc EXCEPT ![p] = "raised"]
    /\ UNCHANGED <<spc, graph_row, json_blob, finding_dicts, prior, runs, cdicts,
                   pvars, mvars, tvars, gvars, jvars>>

\* create_findings_in_db and its commit.
ConcurrentCreate(p) ==
    /\ cpc[p] = "create"
    /\ \E ok \in BOOLEAN :
          IF ok
          THEN /\ stored' = create_findings_in_db(GRAPH_ID, cdicts[p], stored)
               /\ cpc' = [cpc EXCEPT ![p] = "returned"]
          ELSE /\ UNCHANGED stored
               /\ cpc' = [cpc EXCEPT ![p] = "raised"]
    /\ UNCHANGED <<spc, graph_row, json_blob, finding_dicts, prior, runs, cdicts,
                   pvars, mvars, tvars, gvars, jvars>>

ConcurrentNext ==
    \E p \in Procs : ConcurrentValidate(p) \/ ConcurrentDelete(p) \/ ConcurrentCreate(p)

SpecConcurrent == ConcurrentInit /\ [][ConcurrentNext]_vars

\* C30: once both invocations have returned, the rows stored for the graph
\* are one copy of the computed findings.
C30_OneCopyAfterBoth ==
    (\A p \in Procs : cpc[p] = "returned") =>
        RowsOfGraph(stored, GRAPH_ID) =
            create_findings_in_db(GRAPH_ID, validate_graph(json_blob), <<>>)

====
